---- MODULE Spec2Model ----
(***************************************************************************)
(* Model of the Ella Rises backend (src/index.js): an Express server with  *)
(* express-session sessions, a PostgreSQL database reached through knex,   *)
(* and one handler per route.  A handler runs from one `await` to the next *)
(* without interruption; between two awaits the handlers of other requests *)
(* may run.  Every action below is one such uninterrupted stretch of one   *)
(* handler.                                                                *)
(***************************************************************************)
EXTENDS Integers, Sequences, FiniteSets, TLC

(***************************************************************************)
(* Bounds of the model.                                                    *)
(***************************************************************************)
MaxParticipants == 3    \* participants rows ever inserted (serial ids 1..Max)
MaxUsers == 3           \* users rows ever inserted
MaxDonations == 3       \* donations rows ever inserted
MaxSurveys == 3         \* surveys rows ever inserted
MaxWrites == 1          \* writes of manager routes in one run (cascade apart)

Clients == {"c1", "c2"}             \* browsers, one session cookie each

(***************************************************************************)
(* Values.  SQL NULL / JS null of an id column is NoId; a missing string   *)
(* (undefined) is the empty sequence.  Strings that the code parses or     *)
(* searches are sequences of one-character strings.                        *)
(***************************************************************************)
NoId == 0
NoUrl == <<>>
NaN == -999999
limit == 100

Digits == {"0", "1", "2", "3", "4", "5", "6", "7", "8", "9"}

DigitVal(ch) ==
    CASE ch = "0" -> 0 [] ch = "1" -> 1 [] ch = "2" -> 2 [] ch = "3" -> 3
      [] ch = "4" -> 4 [] ch = "5" -> 5 [] ch = "6" -> 6 [] ch = "7" -> 7
      [] ch = "8" -> 8 [] ch = "9" -> 9

RECURSIVE SkipSpaces(_)
SkipSpaces(s) ==
    IF Len(s) > 0 /\ Head(s) = " " THEN SkipSpaces(Tail(s)) ELSE s

RECURSIVE DigitPrefix(_, _)
\* value of the longest run of decimal digits at the head of s, from acc
DigitPrefix(s, acc) ==
    IF Len(s) > 0 /\ Head(s) \in Digits
    THEN DigitPrefix(Tail(s), acc * 10 + DigitVal(Head(s)))
    ELSE acc

\* JavaScript parseInt(string): leading white space is skipped, an optional
\* sign is read, then the longest prefix of digits; anything after it is
\* ignored; NaN when there is no digit at that place (also for undefined).
parseInt(str) ==
    LET s == SkipSpaces(str)
        neg == Len(s) > 0 /\ Head(s) = "-"
        t == IF Len(s) > 0 /\ Head(s) \in {"-", "+"} THEN Tail(s) ELSE s
    IN  IF Len(t) = 0 \/ Head(t) \notin Digits THEN NaN
        ELSE IF neg THEN 0 - DigitPrefix(t, 0) ELSE DigitPrefix(t, 0)

\* ASCII lower-casing of the letters the seed data and the searches use
LowerCh(ch) ==
    CASE ch = "A" -> "a" [] ch = "B" -> "b" [] ch = "P" -> "p"
      [] OTHER -> ch

Lower(s) == [i \in 1..Len(s) |-> LowerCh(s[i])]

\* column ILIKE '%q%': case-insensitive substring match
ILike(text, q) ==
    \E i \in 1..(Len(text) - Len(q) + 1) :
        Lower(SubSeq(text, i, i + Len(q) - 1)) = Lower(q)

\* CONCAT(first_name, ' ', last_name)
Concat(a, b) == a \o <<" ">> \o b

(***************************************************************************)
(* State.                                                                  *)
(***************************************************************************)
VARIABLES
    participants,   \* table participants
    users,          \* table users
    donations,      \* table donations
    surveys,        \* table surveys
    registrations,  \* table registrations
    milestones,     \* table milestones
    event_occurrences, \* table event_occurrences
    seq,            \* the serial sequences of the id columns
    bucket,         \* the S3 bucket: the keys of the stored objects
    now,            \* Date.now() of the server
    writes,         \* manager writes carried out so far (bounded by MaxWrites)
    session,        \* express-session store: client -> session object
    req,            \* client -> the handler suspended at an await, if any
    last            \* the step just taken: client, route, response

tables == <<participants, users, donations, surveys, registrations, milestones,
            event_occurrences>>
vars == <<participants, users, donations, surveys, registrations, milestones,
          event_occurrences, seq, bucket, now, writes, session, req, last>>
\* everything but the database tables, the sessions and the step label
others == <<seq, bucket, now, writes>>

\* a session object that was never written (also after session.destroy)
NoSession ==
    [isLoggedIn |-> FALSE, username |-> "", role |-> "",
     participantId |-> NoId, profilePictureUrl |-> NoUrl]

Idle == [route |-> "none"]

\* response codes: 0 marks a step that ends at an await, without a response
Resp(c, route, status, to, rows, pages) ==
    [client |-> c, route |-> route, status |-> status, to |-> to,
     rows |-> rows, totalPages |-> pages]

Await(c, route) == Resp(c, route, 0, "", {}, 0)

(***************************************************************************)
(* Seed: the database as it is when the server starts.                     *)
(***************************************************************************)
Ana == <<"A", "n", "a">>
Bob == <<"B", "o", "b">>
Perez == <<"P", "e", "r", "e", "z">>
Park == <<"P", "a", "r", "k">>
AnaMail == <<"a", "@", "x">>
BobMail == <<"b", "@", "x">>
NewMail == <<"n", "@", "x">>
Provo == <<"P", "r", "o", "v", "o">>
Goal == <<"G", "o", "a", "l">>

SeedParticipants ==
    { [participant_id |-> 1, first_name |-> Ana, last_name |-> Perez,
       email |-> AnaMail, city |-> Provo, profilePictureUrl |-> NoUrl],
      [participant_id |-> 2, first_name |-> Bob, last_name |-> Park,
       email |-> BobMail, city |-> Provo, profilePictureUrl |-> NoUrl] }

SeedUsers ==
    { [user_id |-> 1, username |-> "boss", password |-> "pw1",
       role |-> "manager", participant_id |-> NoId],
      [user_id |-> 2, username |-> "ana", password |-> "pw2",
       role |-> "user", participant_id |-> 1] }

SeedDonations ==
    { [donation_id |-> 1, participant_id |-> 1, donation_amount |-> 5],
      [donation_id |-> 2, participant_id |-> 2, donation_amount |-> 7] }

SeedRegistrations ==
    { [participant_id |-> 1, event_occurrence_id |-> 1],
      [participant_id |-> 2, event_occurrence_id |-> 1] }

SeedEvents ==
    { [event_occurrence_id |-> 1, event_name |-> Goal],
      [event_occurrence_id |-> 2, event_name |-> Park] }

SeedSurveys ==
    { [survey_id |-> 1, participant_id |-> 2, event_occurrence_id |-> 1,
       score_recommendation |-> <<"5">>, nps_bucket_id |-> 3] }

SeedMilestones ==
    { [milestone_id |-> 1, participant_id |-> 1, milestone_title |-> Goal],
      [milestone_id |-> 2, participant_id |-> 2, milestone_title |-> Goal] }

Init ==
    /\ participants = SeedParticipants
    /\ users = SeedUsers
    /\ donations = SeedDonations
    /\ surveys = SeedSurveys
    /\ registrations = SeedRegistrations
    /\ milestones = SeedMilestones
    /\ event_occurrences = SeedEvents
    /\ seq = [participants |-> 2, users |-> 2, donations |-> 2, surveys |-> 1,
              events |-> 2, milestones |-> 2]
    /\ bucket = {}
    /\ now = 0
    /\ writes = 0
    /\ session = [c \in Clients |-> NoSession]
    /\ req = [c \in Clients |-> Idle]
    /\ last = Await("c1", "none")

(***************************************************************************)
(* Guards.                                                                 *)
(***************************************************************************)
\* mutant: the guard looks the session's user up in the users table
isLoggedIn_Revalidated(sess) ==
    /\ sess.isLoggedIn
    /\ \E u \in users : u.username = sess.username /\ u.role = sess.role

\* mutant: the guard lets every request pass
isLoggedIn_Always(sess) == TRUE

\* if (req.session.isLoggedIn) next(); else res.redirect('/login');
isLoggedIn(sess) == sess.isLoggedIn

\* mutant: the role is not looked at
isManager_AnyRole(sess) == sess.isLoggedIn

\* if (req.session.isLoggedIn && req.session.role === 'manager') next();
isManager(sess) == sess.isLoggedIn /\ sess.role = "manager"

\* what isLoggedIn answers when it does not call next()
ToLogin(c, route) == Resp(c, route, 302, "/login", {}, 0)

\* what isManager answers when it does not call next()
Denied(c, route) == Resp(c, route, 403, "Access Denied: Managers only.", {}, 0)

\* a request of client c can start: the model runs one request of a client
\* at a time
Free(c) == req[c] = Idle

\* survey submissions between their query and their insert
PendingSurveys == Cardinality({d \in Clients : req[d].route = "POST /submit-survey"})

\* signups between their two inserts: each will still take a users id
PendingSignups == Cardinality({d \in Clients : req[d].route = "POST /signup"})

(***************************************************************************)
(* POST /signup, POST /login, GET /logout.                                 *)
(***************************************************************************)
SignupNames == {"superuser", "ana"}
LoginNames == {"boss", "ana", "superuser"}
Passwords == {"pw1", "pw2"}

\* first await: insert into participants ... returning participant_id
SignupInsertParticipant(c, username, password) ==
    /\ Free(c)
    /\ seq.participants < MaxParticipants
    /\ seq.users + PendingSignups < MaxUsers
    /\ LET id == seq.participants + 1 IN
        /\ participants' = participants \cup
              { [participant_id |-> id, first_name |-> Bob, last_name |-> Perez,
                 email |-> NewMail, city |-> <<>>, profilePictureUrl |-> NoUrl] }
        /\ seq' = [seq EXCEPT !.participants = id]
        /\ req' = [req EXCEPT ![c] =
              [route |-> "POST /signup", username |-> username,
               password |-> password, participant_id |-> id]]
    /\ last' = Await(c, "POST /signup")
    /\ UNCHANGED <<users, donations, surveys, registrations, milestones,
                   event_occurrences, bucket, now, writes, session>>

\* mutant: a well-known username is given the manager role
SignupRole_ByName(username) ==
    IF username = "superuser" THEN "manager" ELSE "user"

\* role: 'user' in the users row, req.session.role = 'user'
SignupRole(username) == "user"

\* second await: insert into users; a username that is taken makes the
\* insert throw, and the catch renders the form again
SignupInsertUser(c) ==
    /\ req[c].route = "POST /signup"
    /\ req' = [req EXCEPT ![c] = Idle]
    /\ IF \E u \in users : u.username = req[c].username
       THEN /\ last' = Resp(c, "POST /signup", 200, "signup", {}, 0)
            /\ UNCHANGED <<users, seq, session>>
       ELSE /\ users' = users \cup
                 { [user_id |-> seq.users + 1, username |-> req[c].username,
                    password |-> req[c].password,
                    role |-> SignupRole(req[c].username),
                    participant_id |-> req[c].participant_id] }
            /\ seq' = [seq EXCEPT !.users = seq.users + 1]
            /\ session' = [session EXCEPT ![c] =
                 [@ EXCEPT !.isLoggedIn = TRUE, !.username = req[c].username,
                           !.role = SignupRole(req[c].username),
                           !.participantId = req[c].participant_id]]
            /\ last' = Resp(c, "POST /signup", 302, "/events", {}, 0)
    /\ UNCHANGED <<participants, donations, surveys, registrations, milestones,
                   event_occurrences, bucket, now, writes>>

\* where a successful login redirects to
LoginRedirect(user) ==
    IF user.role = "manager" \/ user.username = "superuser"
    THEN "/dashboard" ELSE "/events"

\* mutant: every password is accepted
PasswordMatches_Any(stored, given) == TRUE

\* user.password === req.body.password
PasswordMatches(stored, given) == stored = given

\* mutant: the message tells whether the username was found
InvalidCredentials_Reveals(c, found) ==
    Resp(c, "POST /login", 200,
         IF found = {} THEN "login: Unknown user" ELSE "login: Wrong password",
         {}, 0)

\* res.render("login", { error_message: "Invalid credentials" }), whether
\* the query found a row (found) or not
InvalidCredentials(c, found) ==
    Resp(c, "POST /login", 200, "login: Invalid credentials", {}, 0)

\* first await: select from users where username = ? limit 1
LoginFindUser(c, username, password) ==
    /\ Free(c)
    /\ LET found == {u \in users : u.username = username} IN
       IF found # {} /\ PasswordMatches((CHOOSE u \in found : TRUE).password, password)
       THEN LET user == CHOOSE u \in found : TRUE IN
            /\ session' = [session EXCEPT ![c] =
                 [@ EXCEPT !.isLoggedIn = TRUE, !.username = user.username,
                           !.role = user.role,
                           !.participantId = user.participant_id]]
            /\ IF user.participant_id # NoId
               THEN /\ req' = [req EXCEPT ![c] =
                         [route |-> "POST /login", user |-> user]]
                    /\ last' = Await(c, "POST /login")
               ELSE /\ req' = req
                    /\ last' = Resp(c, "POST /login", 302, LoginRedirect(user), {}, 0)
       ELSE /\ last' = InvalidCredentials(c, found)
            /\ UNCHANGED <<session, req>>
    /\ UNCHANGED <<tables, others>>

\* second await: select profilePictureUrl from participants
LoginFindPicture(c) ==
    /\ req[c].route = "POST /login"
    /\ LET user == req[c].user
           found == {p \in participants : p.participant_id = user.participant_id}
       IN /\ session' = [session EXCEPT ![c].profilePictureUrl =
                 IF found # {} THEN (CHOOSE p \in found : TRUE).profilePictureUrl
                 ELSE NoUrl]
          /\ last' = Resp(c, "POST /login", 302, LoginRedirect(user), {}, 0)
    /\ req' = [req EXCEPT ![c] = Idle]
    /\ UNCHANGED <<tables, others>>

\* the users query rejects: the catch renders the login form with
\* "System Error" (status 200)
LoginFail(c) ==
    /\ Free(c)
    /\ last' = Resp(c, "POST /login", 200, "login: System Error", {}, 0)
    /\ UNCHANGED <<tables, others, session, req>>

\* the picture query rejects: the same catch; the fields already assigned
\* to req.session stay, and express-session stores them when the response
\* ends
LoginPictureFail(c) ==
    /\ req[c].route = "POST /login"
    /\ req' = [req EXCEPT ![c] = Idle]
    /\ last' = Resp(c, "POST /login", 200, "login: System Error", {}, 0)
    /\ UNCHANGED <<tables, others, session>>

\* mutant: only the username is cleared
Destroyed_NameOnly(sess) == [sess EXCEPT !.username = ""]

\* req.session.destroy(...): the next request of the client starts from a
\* new, empty session
Destroyed(sess) == NoSession

\* req.session.destroy(() => res.redirect("/"))
Logout(c) ==
    /\ Free(c)
    /\ session' = [session EXCEPT ![c] = Destroyed(session[c])]
    /\ last' = Resp(c, "GET /logout", 302, "/", {}, 0)
    /\ UNCHANGED <<tables, others, req>>

(***************************************************************************)
(* The paginated listings: GET /participants, /donations, /surveys,        *)
(* /milestones, /events.  Each runs a count query, then a data query.      *)
(***************************************************************************)
\* the role test every applyFilters starts with
Scoped(sess) == sess.role # "manager" /\ sess.username # "superuser"

\* !isNaN(searchQuery), for the search terms drawn below
IsNumber(q) == Len(q) > 0 /\ \A i \in 1..Len(q) : q[i] \in Digits

\* GET /participants: applyFilters
applyFiltersParticipants(sess, q, r) ==
    /\ Scoped(sess) => r.participant_id = sess.participantId
    /\ q # <<>> =>
         \/ ILike(r.first_name, q) \/ ILike(r.last_name, q)
         \/ ILike(Concat(r.first_name, r.last_name), q)
         \/ ILike(r.email, q) \/ ILike(r.city, q)

\* mutant: the search alternatives are not grouped, so only the first is
\* ANDed with the scoping condition
applyFiltersDonations_Ungrouped(sess, q, r) ==
    IF q = <<>> THEN Scoped(sess) => r.participant_id = sess.participantId
    ELSE \/ /\ Scoped(sess) => r.participant_id = sess.participantId
            /\ ILike(r.first_name, q)
         \/ ILike(r.last_name, q)
         \/ ILike(Concat(r.first_name, r.last_name), q)
         \/ (IsNumber(q) /\ r.donation_amount = parseInt(q))

\* GET /donations: applyFilters
applyFiltersDonations(sess, q, r) ==
    /\ Scoped(sess) => r.participant_id = sess.participantId
    /\ q # <<>> =>
         \/ ILike(r.first_name, q) \/ ILike(r.last_name, q)
         \/ ILike(Concat(r.first_name, r.last_name), q)
         \/ (IsNumber(q) /\ r.donation_amount = parseInt(q))

\* GET /surveys: applyFilters
applyFiltersSurveys(sess, q, r) ==
    /\ Scoped(sess) => r.participant_id = sess.participantId
    /\ q # <<>> =>
         \/ ILike(r.first_name, q) \/ ILike(r.last_name, q)
         \/ ILike(Concat(r.first_name, r.last_name), q)
         \/ ILike(r.event_name, q)

\* GET /milestones: applyFilters
applyFiltersMilestones(sess, q, r) ==
    /\ Scoped(sess) => r.participant_id = sess.participantId
    /\ q # <<>> => ILike(r.first_name, q) \/ ILike(r.milestone_title, q)

\* GET /events: applyFilters (the scoping is a join, see fromEvents)
applyFiltersEvents(sess, q, r) ==
    q # <<>> => ILike(r.event_name, q)

\* donations join participants
fromDonations ==
    { [donation_id |-> d.donation_id, participant_id |-> d.participant_id,
       donation_amount |-> d.donation_amount,
       first_name |-> p.first_name, last_name |-> p.last_name] :
      <<d, p>> \in {x \in donations \X participants :
                      x[1].participant_id = x[2].participant_id} }

\* surveys join participants join event_occurrences join event_templates
fromSurveys ==
    { [survey_id |-> x[1].survey_id, participant_id |-> x[1].participant_id,
       event_occurrence_id |-> x[1].event_occurrence_id,
       score_recommendation |-> x[1].score_recommendation,
       nps_bucket_id |-> x[1].nps_bucket_id,
       first_name |-> x[2].first_name, last_name |-> x[2].last_name,
       event_name |-> x[3].event_name] :
      x \in {y \in surveys \X participants \X event_occurrences :
               /\ y[1].participant_id = y[2].participant_id
               /\ y[1].event_occurrence_id = y[3].event_occurrence_id} }

\* milestones join participants join milestone_types
fromMilestones ==
    { [milestone_id |-> x[1].milestone_id, participant_id |-> x[1].participant_id,
       milestone_title |-> x[1].milestone_title,
       first_name |-> x[2].first_name, last_name |-> x[2].last_name] :
      x \in {y \in milestones \X participants :
               y[1].participant_id = y[2].participant_id} }

\* event_occurrences join event_templates join locations, and for a scoped
\* session join registrations of the session's participant
fromEvents(sess) ==
    { [event_occurrence_id |-> e.event_occurrence_id, event_name |-> e.event_name] :
      e \in {f \in event_occurrences :
               Scoped(sess) =>
                 \E g \in registrations :
                    /\ g.event_occurrence_id = f.event_occurrence_id
                    /\ g.participant_id = sess.participantId} }

ListRoutes == {"GET /participants", "GET /donations", "GET /surveys",
               "GET /milestones", "GET /events"}

\* the rows the count query and the data query of a listing range over
Matching(route, sess, q) ==
    CASE route = "GET /participants" ->
           {r \in participants : applyFiltersParticipants(sess, q, r)}
      [] route = "GET /donations" ->
           {r \in fromDonations : applyFiltersDonations(sess, q, r)}
      [] route = "GET /surveys" ->
           {r \in fromSurveys : applyFiltersSurveys(sess, q, r)}
      [] route = "GET /milestones" ->
           {r \in fromMilestones : applyFiltersMilestones(sess, q, r)}
      [] route = "GET /events" ->
           {r \in fromEvents(sess) : applyFiltersEvents(sess, q, r)}

\* the column a listing is ordered by (ascending for participants, the
\* others newest first: their dates grow with their ids)
OrderKey(route, r) ==
    CASE route = "GET /participants" -> r.participant_id
      [] route = "GET /donations" -> 0 - r.donation_id
      [] route = "GET /surveys" -> 0 - r.survey_id
      [] route = "GET /milestones" -> 0 - r.milestone_id
      [] route = "GET /events" -> 0 - r.event_occurrence_id

\* ... order by key limit 100 offset ?
PageRows(route, rows, offset) ==
    {r \in rows :
        LET before == Cardinality({x \in rows : OrderKey(route, x) < OrderKey(route, r)})
        IN before >= offset /\ before < offset + limit}

\* mutant: the division rounds down
Ceil_Floor(n) == n \div limit

\* Math.ceil(totalCount / limit)
Ceil(n) == (n + limit - 1) \div limit

\* parseInt(req.query.page) || 1
PageOf(str) ==
    LET p == parseInt(str) IN IF p = NaN \/ p = 0 THEN 1 ELSE p

View(route) ==
    CASE route = "GET /participants" -> "participants"
      [] route = "GET /donations" -> "donations"
      [] route = "GET /surveys" -> "surveys"
      [] route = "GET /milestones" -> "milestones"
      [] route = "GET /events" -> "events"

PageParams == {<<>>, <<"2">>, <<"-", "1">>}
Searches == {<<>>, <<"P">>}

\* mutant: applyFilters is not applied to the count query
countQuery_NoFilters(route, sess, q) ==
    Cardinality(Matching(route, [sess EXCEPT !.role = "manager"], <<>>))

\* const countQuery = ...count(... as count).first(); applyFilters(countQuery)
countQuery(route, sess, q) == Cardinality(Matching(route, sess, q))

\* up to the first await: the guard, then the count query
ListCount(c, route, q, pageParam) ==
    /\ Free(c)
    /\ IF ~isLoggedIn(session[c])
       THEN /\ last' = ToLogin(c, route)
            /\ req' = req
       ELSE /\ req' = [req EXCEPT ![c] =
                 [route |-> route, q |-> q, page |-> PageOf(pageParam),
                  totalPages |-> Ceil(countQuery(route, session[c], q))]]
            /\ last' = Await(c, route)
    /\ UNCHANGED <<tables, others, session>>

\* the data query and the render; a negative offset makes the query throw
ListData(c) ==
    /\ req[c].route \in ListRoutes
    /\ LET route == req[c].route
           offset == (req[c].page - 1) * limit
       IN last' =
            IF offset < 0
            THEN Resp(c, route, 500, "Error", {}, 0)
            ELSE Resp(c, route, 200, View(route),
                      PageRows(route, Matching(route, session[c], req[c].q), offset),
                      req[c].totalPages)
    /\ req' = [req EXCEPT ![c] = Idle]
    /\ UNCHANGED <<tables, others, session>>

(***************************************************************************)
(* The database's part in the manager routes: locks and foreign keys.      *)
(***************************************************************************)
Cascade == "POST /participants/delete/:id"

TableNames == {"donations", "surveys", "registrations", "milestones", "users",
               "participants"}

\* the tables that carry a participant_id referencing participants
ChildTables == TableNames \ {"participants"}

Table(t) ==
    CASE t = "donations" -> donations
      [] t = "surveys" -> surveys
      [] t = "registrations" -> registrations
      [] t = "milestones" -> milestones
      [] t = "users" -> users
      [] t = "participants" -> participants

NoRows == [t \in TableNames |-> {}]

\* client d's handler is inside db.transaction
InTrx(d) == req[d].route = Cascade

\* a row deleted by a transaction that has not ended is locked: statements
\* of other connections that touch it wait for the transaction's end
Locked(t, r) == \E d \in Clients : InTrx(d) /\ r \in req[d].deleted[t]

\* mutant: the column has no foreign key
RefOk_NoConstraint(pid) == TRUE

\* the foreign key participant_id of an inserted or updated row
RefOk(pid) == \E p \in participants : p.participant_id = pid

\* the foreign key check waits while the referenced participant is locked
RefWaits(pid) ==
    \E p \in participants : p.participant_id = pid /\ Locked("participants", p)

\* remove the rows del[t] from every table t
RemoveRows(del) ==
    /\ donations' = donations \ del.donations
    /\ surveys' = surveys \ del.surveys
    /\ registrations' = registrations \ del.registrations
    /\ milestones' = milestones \ del.milestones
    /\ users' = users \ del.users
    /\ participants' = participants \ del.participants
    /\ event_occurrences' = event_occurrences

\* an async handler without try/catch whose query rejects: the handler ends
\* without sending a response
Unhandled(c, route) == Resp(c, route, 0, "unhandled rejection", {}, 0)

Redirect(c, route, to) == Resp(c, route, 302, to, {}, 0)

(***************************************************************************)
(* Participants: add, edit, delete.                                        *)
(***************************************************************************)
\* GET /participants/add
participantsAddForm(c) ==
    /\ Free(c)
    /\ last' = IF isManager(session[c])
               THEN Resp(c, "GET /participants/add", 200, "participants_add", {}, 0)
               ELSE Denied(c, "GET /participants/add")
    /\ UNCHANGED <<tables, others, session, req>>

\* POST /participants/add: insert(req.body); a form that carries returnTo
\* names a column the table does not have, and the insert throws
participantsAdd(c, returnTo) ==
    /\ Free(c)
    /\ IF ~isManager(session[c])
       THEN /\ last' = Denied(c, "POST /participants/add")
            /\ UNCHANGED <<participants, seq, writes>>
       ELSE IF returnTo # ""
       THEN /\ last' = Resp(c, "POST /participants/add", 500,
                            "Error adding participant", {}, 0)
            /\ UNCHANGED <<participants, seq, writes>>
       ELSE /\ writes < MaxWrites
            /\ seq.participants < MaxParticipants
            /\ participants' = participants \cup
                 { [participant_id |-> seq.participants + 1, first_name |-> Bob,
                    last_name |-> Park, email |-> NewMail, city |-> Provo,
                    profilePictureUrl |-> NoUrl] }
            /\ seq' = [seq EXCEPT !.participants = seq.participants + 1]
            /\ writes' = writes + 1
            /\ last' = Redirect(c, "POST /participants/add", "/participants")
    /\ UNCHANGED <<users, donations, surveys, registrations, milestones,
                   event_occurrences, bucket, now, session, req>>

\* GET /participants/edit/:id
participantsEditForm(c, id) ==
    /\ Free(c)
    /\ last' = IF isManager(session[c])
               THEN Resp(c, "GET /participants/edit/:id", 200, "participants_edit",
                         {p \in participants : p.participant_id = id}, 0)
               ELSE Denied(c, "GET /participants/edit/:id")
    /\ UNCHANGED <<tables, others, session, req>>

\* POST /participants/edit/:id: updates the listed columns
participantsEdit(c, id, first_name, city) ==
    /\ Free(c)
    /\ IF ~isManager(session[c])
       THEN /\ last' = Denied(c, "POST /participants/edit/:id")
            /\ UNCHANGED <<participants, writes>>
       ELSE /\ writes < MaxWrites
            /\ \A p \in participants :
                  p.participant_id = id => ~Locked("participants", p)
            /\ participants' =
                 { IF p.participant_id = id
                   THEN [p EXCEPT !.first_name = first_name, !.city = city]
                   ELSE p : p \in participants }
            /\ writes' = writes + 1
            /\ last' = Redirect(c, "POST /participants/edit/:id", "/participants")
    /\ UNCHANGED <<users, donations, surveys, registrations, milestones,
                   event_occurrences, seq, bucket, now, session, req>>

\* the six delete statements of the transaction, in the order of the code
CascadeOrder ==
    <<"donations", "surveys", "registrations", "milestones", "users",
      "participants">>

\* mutant: the first statement is sent on the pool (db) instead of trx
CascadeVia_Pool(t) == IF t = "donations" THEN "db" ELSE "trx"

\* the connection a delete statement of the cascade is sent on: all six use
\* the transaction's
CascadeVia(t) == "trx"

\* mutant: a statement without its where clause
CascadeRows_NoWhere(t, targetId) == Table(t)

\* ... .where({ participant_id: targetId }): the rows a statement deletes
CascadeRows(t, targetId) == {r \in Table(t) : r.participant_id = targetId}

\* rows that still reference the participant when it is deleted
Referencing(c, targetId) ==
    UNION { {r \in Table(t) : r.participant_id = targetId} \ req[c].deleted[t] :
            t \in ChildTables }

CascadeError(c) ==
    Resp(c, Cascade, 500,
         "Error deleting participant. They may have other linked records.", {}, 0)

\* POST /participants/delete/:id up to the start of the transaction
participantsDeleteBegin(c, id) ==
    /\ Free(c)
    /\ IF ~isManager(session[c])
       THEN /\ last' = Denied(c, Cascade)
            /\ UNCHANGED req
       ELSE /\ req' = [req EXCEPT ![c] =
                 [route |-> Cascade, targetId |-> id, step |-> 1,
                  deleted |-> NoRows]]
            /\ last' = Await(c, Cascade)
    /\ UNCHANGED <<tables, others, session>>

\* one delete statement of the transaction
participantsDeleteStatement(c) ==
    /\ InTrx(c)
    /\ req[c].step <= Len(CascadeOrder)
    /\ LET t == CascadeOrder[req[c].step]
           rows == CascadeRows(t, req[c].targetId)
       IN /\ \A r \in rows :
                ~ \E d \in Clients \ {c} : InTrx(d) /\ r \in req[d].deleted[t]
          /\ IF t = "participants" /\ Referencing(c, req[c].targetId) # {}
             THEN \* foreign key violation: the transaction rolls back
                  /\ req' = [req EXCEPT ![c] = Idle]
                  /\ last' = CascadeError(c)
                  /\ UNCHANGED tables
             ELSE IF CascadeVia(t) = "trx"
             THEN /\ req' = [req EXCEPT ![c].step = @ + 1,
                                        ![c].deleted[t] = rows]
                  /\ last' = Await(c, Cascade)
                  /\ UNCHANGED tables
             ELSE \* sent on the pool: committed at once
                  /\ req' = [req EXCEPT ![c].step = @ + 1]
                  /\ last' = Await(c, Cascade)
                  /\ RemoveRows([NoRows EXCEPT ![t] = rows])
    /\ UNCHANGED <<others, session>>

\* a delete statement of the transaction fails: rollback, then the catch
participantsDeleteFail(c) ==
    /\ InTrx(c)
    /\ req[c].step <= Len(CascadeOrder)
    /\ req' = [req EXCEPT ![c] = Idle]
    /\ last' = CascadeError(c)
    /\ UNCHANGED <<tables, others, session>>

\* the transaction commits and the handler redirects
participantsDeleteCommit(c) ==
    /\ InTrx(c)
    /\ req[c].step = Len(CascadeOrder) + 1
    /\ RemoveRows(req[c].deleted)
    /\ req' = [req EXCEPT ![c] = Idle]
    /\ last' = Redirect(c, Cascade, "/participants")
    /\ UNCHANGED <<others, session>>


(***************************************************************************)
(* Donations: add, edit, delete.  These handlers have no try/catch.        *)
(***************************************************************************)
\* GET /donations/add
donationsAddForm(c) ==
    /\ Free(c)
    /\ last' = IF isManager(session[c])
               THEN Resp(c, "GET /donations/add", 200, "donations_add", {}, 0)
               ELSE Denied(c, "GET /donations/add")
    /\ UNCHANGED <<tables, others, session, req>>

\* POST /donations/add
donationsAdd(c, pid, amount) ==
    /\ Free(c)
    /\ IF ~isManager(session[c])
       THEN /\ last' = Denied(c, "POST /donations/add")
            /\ UNCHANGED <<donations, seq, writes>>
       ELSE /\ writes < MaxWrites
            /\ seq.donations < MaxDonations
            /\ ~RefWaits(pid)
            /\ writes' = writes + 1
            /\ IF RefOk(pid)
               THEN /\ donations' = donations \cup
                         { [donation_id |-> seq.donations + 1,
                            participant_id |-> pid, donation_amount |-> amount] }
                    /\ seq' = [seq EXCEPT !.donations = seq.donations + 1]
                    /\ last' = Redirect(c, "POST /donations/add", "/donations")
               ELSE /\ last' = Unhandled(c, "POST /donations/add")
                    /\ UNCHANGED <<donations, seq>>
    /\ UNCHANGED <<participants, users, surveys, registrations, milestones,
                   event_occurrences, bucket, now, session, req>>

\* GET /donations/edit/:id
donationsEditForm(c, id) ==
    /\ Free(c)
    /\ last' = IF isManager(session[c])
               THEN Resp(c, "GET /donations/edit/:id", 200, "donations_edit",
                         {d \in donations : d.donation_id = id}, 0)
               ELSE Denied(c, "GET /donations/edit/:id")
    /\ UNCHANGED <<tables, others, session, req>>

\* POST /donations/edit/:id
donationsEdit(c, id, pid, amount) ==
    /\ Free(c)
    /\ IF ~isManager(session[c])
       THEN /\ last' = Denied(c, "POST /donations/edit/:id")
            /\ UNCHANGED <<donations, writes>>
       ELSE /\ writes < MaxWrites
            /\ ~RefWaits(pid)
            /\ \A d \in donations : d.donation_id = id => ~Locked("donations", d)
            /\ writes' = writes + 1
            /\ IF RefOk(pid) \/ ~ \E d \in donations : d.donation_id = id
               THEN /\ donations' =
                         { IF d.donation_id = id
                           THEN [d EXCEPT !.participant_id = pid,
                                          !.donation_amount = amount]
                           ELSE d : d \in donations }
                    /\ last' = Redirect(c, "POST /donations/edit/:id", "/donations")
               ELSE /\ last' = Unhandled(c, "POST /donations/edit/:id")
                    /\ UNCHANGED donations
    /\ UNCHANGED <<participants, users, surveys, registrations, milestones,
                   event_occurrences, seq, bucket, now, session, req>>

\* POST /donations/delete/:id
donationsDelete(c, id) ==
    /\ Free(c)
    /\ IF ~isManager(session[c])
       THEN /\ last' = Denied(c, "POST /donations/delete/:id")
            /\ UNCHANGED <<donations, writes>>
       ELSE /\ writes < MaxWrites
            /\ \A d \in donations : d.donation_id = id => ~Locked("donations", d)
            /\ writes' = writes + 1
            /\ donations' = {d \in donations : d.donation_id # id}
            /\ last' = Redirect(c, "POST /donations/delete/:id", "/donations")
    /\ UNCHANGED <<participants, users, surveys, registrations, milestones,
                   event_occurrences, seq, bucket, now, session, req>>

(***************************************************************************)
(* Surveys: add, edit, delete.                                             *)
(***************************************************************************)
\* the row a surveys form body becomes
SurveyRow(id, body) ==
    [survey_id |-> id, participant_id |-> body.participant_id,
     event_occurrence_id |-> body.event_occurrence_id,
     score_recommendation |-> body.score_recommendation,
     nps_bucket_id |-> body.nps_bucket_id]

\* the NPS bucket of a recommend score, as POST /submit-survey computes it;
\* 0 stands for null
npsBucketId(recommend) ==
    LET recScore == parseInt(recommend) IN
    IF recScore # NaN /\ recScore >= 1 /\ recScore <= 3 THEN 1
    ELSE IF recScore = 4 THEN 2
    ELSE IF recScore = 5 THEN 3
    ELSE NoId

\* GET /surveys/add
surveysAddForm(c) ==
    /\ Free(c)
    /\ last' = IF isManager(session[c])
               THEN Resp(c, "GET /surveys/add", 200, "surveys_add", {}, 0)
               ELSE Denied(c, "GET /surveys/add")
    /\ UNCHANGED <<tables, others, session, req>>

\* POST /surveys/add of index.js: insert({ ...req.body, submission_date })
surveysAdd(c, body) ==
    /\ Free(c)
    /\ IF ~isManager(session[c])
       THEN /\ last' = Denied(c, "POST /surveys/add")
            /\ UNCHANGED <<surveys, seq, writes>>
       ELSE /\ writes < MaxWrites
            /\ seq.surveys < MaxSurveys
            /\ ~RefWaits(body.participant_id)
            /\ writes' = writes + 1
            /\ IF RefOk(body.participant_id)
               THEN /\ surveys' = surveys \cup {SurveyRow(seq.surveys + 1, body)}
                    /\ seq' = [seq EXCEPT !.surveys = seq.surveys + 1]
                    /\ last' = Redirect(c, "POST /surveys/add", "/surveys")
               ELSE /\ last' = Unhandled(c, "POST /surveys/add")
                    /\ UNCHANGED <<surveys, seq>>
    /\ UNCHANGED <<participants, users, donations, registrations, milestones,
                   event_occurrences, bucket, now, session, req>>

\* POST /surveys/add of the later copy of the file (unnamed/part_002): the
\* bucket is computed from score_recommendation, failures are caught
surveysAddComputed(c, body) ==
    /\ Free(c)
    /\ IF ~isManager(session[c])
       THEN /\ last' = Denied(c, "POST /surveys/add")
            /\ UNCHANGED <<surveys, seq, writes>>
       ELSE /\ writes < MaxWrites
            /\ seq.surveys < MaxSurveys
            /\ ~RefWaits(body.participant_id)
            /\ writes' = writes + 1
            /\ IF RefOk(body.participant_id)
               THEN /\ surveys' = surveys \cup
                         { SurveyRow(seq.surveys + 1,
                              [body EXCEPT !.nps_bucket_id =
                                  npsBucketId(body.score_recommendation)]) }
                    /\ seq' = [seq EXCEPT !.surveys = seq.surveys + 1]
                    /\ last' = Redirect(c, "POST /surveys/add", "/surveys")
               ELSE /\ last' = Resp(c, "POST /surveys/add", 500,
                                    "Error saving survey", {}, 0)
                    /\ UNCHANGED <<surveys, seq>>
    /\ UNCHANGED <<participants, users, donations, registrations, milestones,
                   event_occurrences, bucket, now, session, req>>

\* GET /surveys/edit/:id
surveysEditForm(c, id) ==
    /\ Free(c)
    /\ last' = IF isManager(session[c])
               THEN Resp(c, "GET /surveys/edit/:id", 200, "surveys_edit",
                         {r \in surveys : r.survey_id = id}, 0)
               ELSE Denied(c, "GET /surveys/edit/:id")
    /\ UNCHANGED <<tables, others, session, req>>

\* POST /surveys/edit/:id: update(req.body)
surveysEdit(c, id, body) ==
    /\ Free(c)
    /\ IF ~isManager(session[c])
       THEN /\ last' = Denied(c, "POST /surveys/edit/:id")
            /\ UNCHANGED <<surveys, writes>>
       ELSE /\ writes < MaxWrites
            /\ ~RefWaits(body.participant_id)
            /\ \A r \in surveys : r.survey_id = id => ~Locked("surveys", r)
            /\ writes' = writes + 1
            /\ IF RefOk(body.participant_id) \/ ~ \E r \in surveys : r.survey_id = id
               THEN /\ surveys' = { IF r.survey_id = id THEN SurveyRow(id, body)
                                    ELSE r : r \in surveys }
                    /\ last' = Redirect(c, "POST /surveys/edit/:id", "/surveys")
               ELSE /\ last' = Unhandled(c, "POST /surveys/edit/:id")
                    /\ UNCHANGED surveys
    /\ UNCHANGED <<participants, users, donations, registrations, milestones,
                   event_occurrences, seq, bucket, now, session, req>>

\* POST /surveys/delete/:id
surveysDelete(c, id) ==
    /\ Free(c)
    /\ IF ~isManager(session[c])
       THEN /\ last' = Denied(c, "POST /surveys/delete/:id")
            /\ UNCHANGED <<surveys, writes>>
       ELSE /\ writes < MaxWrites
            /\ \A r \in surveys : r.survey_id = id => ~Locked("surveys", r)
            /\ writes' = writes + 1
            /\ surveys' = {r \in surveys : r.survey_id # id}
            /\ last' = Redirect(c, "POST /surveys/delete/:id", "/surveys")
    /\ UNCHANGED <<participants, users, donations, registrations, milestones,
                   event_occurrences, seq, bucket, now, session, req>>

(***************************************************************************)
(* Events and milestones: add, edit, delete.                               *)
(***************************************************************************)
\* GET /events/add
eventsAddForm(c) ==
    /\ Free(c)
    /\ last' = IF isManager(session[c])
               THEN Resp(c, "GET /events/add", 200, "events_add", {}, 0)
               ELSE Denied(c, "GET /events/add")
    /\ UNCHANGED <<tables, others, session, req>>

\* POST /events/add
eventsAdd(c, name) ==
    /\ Free(c)
    /\ IF ~isManager(session[c])
       THEN /\ last' = Denied(c, "POST /events/add")
            /\ UNCHANGED <<event_occurrences, seq, writes>>
       ELSE /\ writes < MaxWrites
            /\ writes' = writes + 1
            /\ event_occurrences' = event_occurrences \cup
                 { [event_occurrence_id |-> seq.events + 1, event_name |-> name] }
            /\ seq' = [seq EXCEPT !.events = seq.events + 1]
            /\ last' = Redirect(c, "POST /events/add", "/events")
    /\ UNCHANGED <<participants, users, donations, surveys, registrations,
                   milestones, bucket, now, session, req>>

\* GET /events/edit/:id
eventsEditForm(c, id) ==
    /\ Free(c)
    /\ last' = IF isManager(session[c])
               THEN Resp(c, "GET /events/edit/:id", 200, "events_edit",
                         {e \in event_occurrences : e.event_occurrence_id = id}, 0)
               ELSE Denied(c, "GET /events/edit/:id")
    /\ UNCHANGED <<tables, others, session, req>>

\* POST /events/edit/:id
eventsEdit(c, id, name) ==
    /\ Free(c)
    /\ IF ~isManager(session[c])
       THEN /\ last' = Denied(c, "POST /events/edit/:id")
            /\ UNCHANGED <<event_occurrences, writes>>
       ELSE /\ writes < MaxWrites
            /\ writes' = writes + 1
            /\ event_occurrences' =
                 { IF e.event_occurrence_id = id THEN [e EXCEPT !.event_name = name]
                   ELSE e : e \in event_occurrences }
            /\ last' = Redirect(c, "POST /events/edit/:id", "/events")
    /\ UNCHANGED <<participants, users, donations, surveys, registrations,
                   milestones, seq, bucket, now, session, req>>

\* POST /events/delete/:id
eventsDelete(c, id) ==
    /\ Free(c)
    /\ IF ~isManager(session[c])
       THEN /\ last' = Denied(c, "POST /events/delete/:id")
            /\ UNCHANGED <<event_occurrences, writes>>
       ELSE /\ writes < MaxWrites
            /\ writes' = writes + 1
            /\ event_occurrences' =
                 {e \in event_occurrences : e.event_occurrence_id # id}
            /\ last' = Redirect(c, "POST /events/delete/:id", "/events")
    /\ UNCHANGED <<participants, users, donations, surveys, registrations,
                   milestones, seq, bucket, now, session, req>>

\* GET /milestones/add
milestonesAddForm(c) ==
    /\ Free(c)
    /\ last' = IF isManager(session[c])
               THEN Resp(c, "GET /milestones/add", 200, "milestones_add", {}, 0)
               ELSE Denied(c, "GET /milestones/add")
    /\ UNCHANGED <<tables, others, session, req>>

\* POST /milestones/add
milestonesAdd(c, pid) ==
    /\ Free(c)
    /\ IF ~isManager(session[c])
       THEN /\ last' = Denied(c, "POST /milestones/add")
            /\ UNCHANGED <<milestones, seq, writes>>
       ELSE /\ writes < MaxWrites
            /\ ~RefWaits(pid)
            /\ writes' = writes + 1
            /\ IF RefOk(pid)
               THEN /\ milestones' = milestones \cup
                         { [milestone_id |-> seq.milestones + 1,
                            participant_id |-> pid, milestone_title |-> Goal] }
                    /\ seq' = [seq EXCEPT !.milestones = seq.milestones + 1]
                    /\ last' = Redirect(c, "POST /milestones/add", "/milestones")
               ELSE /\ last' = Unhandled(c, "POST /milestones/add")
                    /\ UNCHANGED <<milestones, seq>>
    /\ UNCHANGED <<participants, users, donations, surveys, registrations,
                   event_occurrences, bucket, now, session, req>>

\* GET /milestones/edit/:id
milestonesEditForm(c, id) ==
    /\ Free(c)
    /\ last' = IF isManager(session[c])
               THEN Resp(c, "GET /milestones/edit/:id", 200, "milestones_edit",
                         {m \in milestones : m.milestone_id = id}, 0)
               ELSE Denied(c, "GET /milestones/edit/:id")
    /\ UNCHANGED <<tables, others, session, req>>

\* POST /milestones/edit/:id
milestonesEdit(c, id, pid) ==
    /\ Free(c)
    /\ IF ~isManager(session[c])
       THEN /\ last' = Denied(c, "POST /milestones/edit/:id")
            /\ UNCHANGED <<milestones, writes>>
       ELSE /\ writes < MaxWrites
            /\ ~RefWaits(pid)
            /\ \A m \in milestones : m.milestone_id = id => ~Locked("milestones", m)
            /\ writes' = writes + 1
            /\ IF RefOk(pid) \/ ~ \E m \in milestones : m.milestone_id = id
               THEN /\ milestones' =
                         { IF m.milestone_id = id THEN [m EXCEPT !.participant_id = pid]
                           ELSE m : m \in milestones }
                    /\ last' = Redirect(c, "POST /milestones/edit/:id", "/milestones")
               ELSE /\ last' = Unhandled(c, "POST /milestones/edit/:id")
                    /\ UNCHANGED milestones
    /\ UNCHANGED <<participants, users, donations, surveys, registrations,
                   event_occurrences, seq, bucket, now, session, req>>

\* POST /milestones/delete/:id
milestonesDelete(c, id) ==
    /\ Free(c)
    /\ IF ~isManager(session[c])
       THEN /\ last' = Denied(c, "POST /milestones/delete/:id")
            /\ UNCHANGED <<milestones, writes>>
       ELSE /\ writes < MaxWrites
            /\ \A m \in milestones : m.milestone_id = id => ~Locked("milestones", m)
            /\ writes' = writes + 1
            /\ milestones' = {m \in milestones : m.milestone_id # id}
            /\ last' = Redirect(c, "POST /milestones/delete/:id", "/milestones")
    /\ UNCHANGED <<participants, users, donations, surveys, registrations,
                   event_occurrences, seq, bucket, now, session, req>>

(***************************************************************************)
(* Users: list, add, edit, delete.                                         *)
(***************************************************************************)
\* GET /users (the search on the username is left out: no property reads it)
usersList(c) ==
    /\ Free(c)
    /\ last' = IF isManager(session[c])
               THEN Resp(c, "GET /users", 200, "users", users, 0)
               ELSE Denied(c, "GET /users")
    /\ UNCHANGED <<tables, others, session, req>>

\* GET /users/add
usersAddForm(c) ==
    /\ Free(c)
    /\ last' = IF isManager(session[c])
               THEN Resp(c, "GET /users/add", 200, "users_add", {}, 0)
               ELSE Denied(c, "GET /users/add")
    /\ UNCHANGED <<tables, others, session, req>>

\* the users row of a form body: participant_id: req.body.participant_id || null
UserRow(id, body) ==
    [user_id |-> id, username |-> body.username, password |-> body.password,
     role |-> body.role, participant_id |-> body.participant_id]

\* a users row that the database accepts: the username is not that of
\* another row, the participant it names exists
UserAccepted(row) ==
    /\ ~ \E u \in users : u.user_id # row.user_id /\ u.username = row.username
    /\ row.participant_id # NoId => RefOk(row.participant_id)

\* POST /users/add
usersAdd(c, body) ==
    /\ Free(c)
    /\ IF ~isManager(session[c])
       THEN /\ last' = Denied(c, "POST /users/add")
            /\ UNCHANGED <<users, seq, writes>>
       ELSE /\ writes < MaxWrites
            /\ seq.users + PendingSignups < MaxUsers
            /\ ~RefWaits(body.participant_id)
            /\ writes' = writes + 1
            /\ IF UserAccepted(UserRow(seq.users + 1, body))
               THEN /\ users' = users \cup {UserRow(seq.users + 1, body)}
                    /\ seq' = [seq EXCEPT !.users = seq.users + 1]
                    /\ last' = Redirect(c, "POST /users/add", "/users")
               ELSE /\ last' = Unhandled(c, "POST /users/add")
                    /\ UNCHANGED <<users, seq>>
    /\ UNCHANGED <<participants, donations, surveys, registrations, milestones,
                   event_occurrences, bucket, now, session, req>>

\* GET /users/edit/:id
usersEditForm(c, id) ==
    /\ Free(c)
    /\ last' = IF isManager(session[c])
               THEN Resp(c, "GET /users/edit/:id", 200, "users_edit",
                         {u \in users : u.user_id = id}, 0)
               ELSE Denied(c, "GET /users/edit/:id")
    /\ UNCHANGED <<tables, others, session, req>>

\* POST /users/edit/:id
usersEdit(c, id, body) ==
    /\ Free(c)
    /\ IF ~isManager(session[c])
       THEN /\ last' = Denied(c, "POST /users/edit/:id")
            /\ UNCHANGED <<users, writes>>
       ELSE /\ writes < MaxWrites
            /\ ~RefWaits(body.participant_id)
            /\ \A u \in users : u.user_id = id => ~Locked("users", u)
            /\ writes' = writes + 1
            /\ IF UserAccepted(UserRow(id, body)) \/ ~ \E u \in users : u.user_id = id
               THEN /\ users' = { IF u.user_id = id THEN UserRow(id, body) ELSE u :
                                  u \in users }
                    /\ last' = Redirect(c, "POST /users/edit/:id", "/users")
               ELSE /\ last' = Unhandled(c, "POST /users/edit/:id")
                    /\ UNCHANGED users
    /\ UNCHANGED <<participants, donations, surveys, registrations, milestones,
                   event_occurrences, seq, bucket, now, session, req>>

\* req.session.user_id: neither POST /login nor POST /signup stores a
\* user_id in the session, so the property is undefined
SessionUserId(sess) == [defined |-> FALSE, value |-> NoId]

\* number === value
StrictEquals(n, v) == v.defined /\ v.value = n

\* POST /users/delete/:id
usersDelete(c, id) ==
    /\ Free(c)
    /\ IF ~isManager(session[c])
       THEN /\ last' = Denied(c, "POST /users/delete/:id")
            /\ UNCHANGED <<users, writes>>
       ELSE IF StrictEquals(id, SessionUserId(session[c]))
       THEN /\ last' = Resp(c, "POST /users/delete/:id", 400, "Cannot delete self.",
                            {}, 0)
            /\ UNCHANGED <<users, writes>>
       ELSE /\ writes < MaxWrites
            /\ \A u \in users : u.user_id = id => ~Locked("users", u)
            /\ writes' = writes + 1
            /\ users' = {u \in users : u.user_id # id}
            /\ last' = Redirect(c, "POST /users/delete/:id", "/users")
    /\ UNCHANGED <<participants, donations, surveys, registrations, milestones,
                   event_occurrences, seq, bucket, now, session, req>>

(***************************************************************************)
(* GET /dashboard, /teapot, /survey/:eventId, /survey/view/:surveyId.      *)
(***************************************************************************)
\* GET /dashboard up to the first count query
dashboardBegin(c) ==
    /\ Free(c)
    /\ IF ~isLoggedIn(session[c])
       THEN /\ last' = ToLogin(c, "GET /dashboard")
            /\ req' = req
       ELSE IF Scoped(session[c])
       THEN /\ last' = Redirect(c, "GET /dashboard", "/events")
            /\ req' = req
       ELSE /\ req' = [req EXCEPT ![c] =
                 [route |-> "GET /dashboard", step |-> 2,
                  p |-> Cardinality(participants), d |-> 0]]
            /\ last' = Await(c, "GET /dashboard")
    /\ UNCHANGED <<tables, others, session>>

\* the count of donations
dashboardDonations(c) ==
    /\ req[c].route = "GET /dashboard" /\ req[c].step = 2
    /\ req' = [req EXCEPT ![c].step = 3, ![c].d = Cardinality(donations)]
    /\ last' = Await(c, "GET /dashboard")
    /\ UNCHANGED <<tables, others, session>>

\* the count of event_occurrences, and the render
dashboardEvents(c) ==
    /\ req[c].route = "GET /dashboard" /\ req[c].step = 3
    /\ req' = [req EXCEPT ![c] = Idle]
    /\ last' = Resp(c, "GET /dashboard", 200, "dashboard",
                    { [participants |-> req[c].p, donations |-> req[c].d,
                       events |-> Cardinality(event_occurrences)] }, 0)
    /\ UNCHANGED <<tables, others, session>>

\* GET /dashboard when one of the count queries rejects: catch (e) logs,
\* and the dashboard is rendered with the initial stats
dashboardFail(c) ==
    /\ req[c].route = "GET /dashboard"
    /\ req' = [req EXCEPT ![c] = Idle]
    /\ last' = Resp(c, "GET /dashboard", 200, "dashboard",
                    { [participants |-> 0, donations |-> 0, events |-> 0] }, 0)
    /\ UNCHANGED <<tables, others, session>>

\* GET /teapot
teapot(c) ==
    /\ Free(c)
    /\ last' = IF isLoggedIn(session[c])
               THEN Resp(c, "GET /teapot", 418, "teapot", {}, 0)
               ELSE ToLogin(c, "GET /teapot")
    /\ UNCHANGED <<tables, others, session, req>>

\* GET /survey/:eventId
surveyForm(c, eventId) ==
    /\ Free(c)
    /\ last' = IF isLoggedIn(session[c])
               THEN Resp(c, "GET /survey/:eventId", 200, "survey", {}, 0)
               ELSE ToLogin(c, "GET /survey/:eventId")
    /\ UNCHANGED <<tables, others, session, req>>

\* mutant: the test of the listings, which also lets superuser through
MayView_AsListings(sess, survey) ==
    ~Scoped(sess) \/ survey.participant_id = sess.participantId

\* the negation of: req.session.role !== 'manager' &&
\* survey.participant_id !== req.session.participantId
MayView(sess, survey) ==
    sess.role = "manager" \/ survey.participant_id = sess.participantId

\* GET /survey/view/:surveyId
surveyView(c, surveyId) ==
    /\ Free(c)
    /\ LET route == "GET /survey/view/:surveyId"
           found == {r \in surveys : r.survey_id = surveyId}
           survey == CHOOSE r \in found : TRUE
       IN last' =
            IF ~isLoggedIn(session[c]) THEN ToLogin(c, route)
            ELSE IF found = {} THEN Redirect(c, route, "/events")
            ELSE IF ~MayView(session[c], survey)
            THEN Resp(c, route, 403, "You are not authorized to view this survey.",
                      {}, 0)
            ELSE Resp(c, route, 200, "survey_view", {survey}, 0)
    /\ UNCHANGED <<tables, others, session, req>>

(***************************************************************************)
(* POST /submit-survey.                                                    *)
(***************************************************************************)
SubmitSurvey == "POST /submit-survey"

\* mutant: the check looks for the participant's survey of another event
ExistingSurvey_OtherEvent(userId, event_id) ==
    {r \in surveys : /\ r.participant_id = userId
                     /\ r.event_occurrence_id = event_id + 1}

\* db("surveys").where({ participant_id: userId, event_occurrence_id: event_id })
ExistingSurvey(userId, event_id) ==
    {r \in surveys : /\ r.participant_id = userId
                     /\ r.event_occurrence_id = event_id}

\* the guard and the query that looks for a survey of this participant for
\* this event
submitSurveyCheck(c, event_id, recommend) ==
    /\ Free(c)
    /\ IF ~isLoggedIn(session[c])
       THEN /\ last' = ToLogin(c, SubmitSurvey)
            /\ req' = req
       ELSE LET userId == session[c].participantId
                existing == ExistingSurvey(userId, event_id)
            IN IF existing # {}
               THEN \* the label keeps the row the query found
                    /\ last' = Resp(c, SubmitSurvey, 302, "/events", existing, 0)
                    /\ req' = req
               ELSE /\ seq.surveys + PendingSurveys < MaxSurveys
                    /\ req' = [req EXCEPT ![c] =
                         [route |-> SubmitSurvey,
                          row |-> [participant_id |-> userId,
                                   event_occurrence_id |-> event_id,
                                   score_recommendation |-> recommend,
                                   nps_bucket_id |-> npsBucketId(recommend)]]]
                    /\ last' = Await(c, SubmitSurvey)
    /\ UNCHANGED <<tables, others, session>>

\* the insert, and the redirect
submitSurveyInsert(c) ==
    /\ req[c].route = SubmitSurvey
    /\ ~RefWaits(req[c].row.participant_id)
    /\ req' = [req EXCEPT ![c] = Idle]
    /\ IF req[c].row.participant_id = NoId \/ RefOk(req[c].row.participant_id)
       THEN /\ surveys' = surveys \cup {SurveyRow(seq.surveys + 1, req[c].row)}
            /\ seq' = [seq EXCEPT !.surveys = seq.surveys + 1]
            /\ last' = Redirect(c, SubmitSurvey, "/events")
       ELSE /\ last' = Resp(c, SubmitSurvey, 500, "Error submitting survey", {}, 0)
            /\ UNCHANGED <<surveys, seq>>
    /\ UNCHANGED <<participants, users, donations, registrations, milestones,
                   event_occurrences, bucket, now, writes, session>>

\* the insert fails in the database: the catch answers 500
submitSurveyFail(c) ==
    /\ req[c].route = SubmitSurvey
    /\ req' = [req EXCEPT ![c] = Idle]
    /\ last' = Resp(c, SubmitSurvey, 500, "Error submitting survey", {}, 0)
    /\ UNCHANGED <<tables, others, session>>

(***************************************************************************)
(* POST /participants/upload-image, POST /participants/delete-image.       *)
(***************************************************************************)
UploadImage == "POST /participants/upload-image"
DeleteImage == "POST /participants/delete-image"

\* key: profile-pics/${Date.now()}-${file.originalname}
ObjectKey(time, originalname) == <<time, originalname>>

\* let targetId = req.session.participantId; if (role === 'manager' &&
\* req.body.participant_id) targetId = req.body.participant_id;
\* the form field is a string, absent when empty
\* mutant: the form field decides, whatever the role
TargetId_FormFirst(sess, bodyId) ==
    IF bodyId # <<>> THEN parseInt(bodyId) ELSE sess.participantId

TargetId(sess, bodyId) ==
    IF sess.role = "manager" /\ bodyId # <<>> THEN parseInt(bodyId)
    ELSE sess.participantId

\* mutant: the session copy is never refreshed
IsOwn_Never(targetId, sess) == FALSE

\* parseInt(targetId) === req.session.participantId; with no participantId
\* in the session targetId is null and parseInt(null) is NaN
IsOwn(targetId, sess) == targetId # NoId /\ targetId = sess.participantId

\* mutant: the handler does not wait for the bucket
StoredFirst_No(c) == TRUE

\* the handler runs after upload.single has stored the file
StoredFirst(c) == req[c].step = 2

\* the guard, then multer: a file of the form is sent to the bucket
uploadImageBegin(c, originalname, bodyId) ==
    /\ Free(c)
    /\ IF ~isLoggedIn(session[c])
       THEN /\ last' = ToLogin(c, UploadImage)
            /\ req' = req
       ELSE IF originalname = ""
       THEN \* no file: if (!req.file) return res.redirect("/participants")
            /\ last' = Redirect(c, UploadImage, "/participants")
            /\ req' = req
       ELSE /\ req' = [req EXCEPT ![c] =
                 [route |-> UploadImage, step |-> 1,
                  key |-> ObjectKey(now, originalname), bodyId |-> bodyId]]
            /\ last' = Await(c, UploadImage)
    /\ UNCHANGED <<tables, others, session>>

\* the object is stored; the handler runs up to the update of participants
uploadImageStored(c) ==
    /\ req[c].route = UploadImage /\ req[c].step = 1
    /\ bucket' = bucket \cup {req[c].key}
    /\ req' = [req EXCEPT ![c].step = 2]
    /\ last' = Await(c, UploadImage)
    /\ UNCHANGED <<tables, seq, now, writes, session>>

\* the bucket rejects the object: multer passes the error on, the handler
\* does not run
uploadImageRejected(c) ==
    /\ req[c].route = UploadImage /\ req[c].step = 1
    /\ req' = [req EXCEPT ![c] = Idle]
    /\ last' = Resp(c, UploadImage, 500, "Internal Server Error", {}, 0)
    /\ UNCHANGED <<tables, others, session>>

\* update participants set profilePictureUrl = s3Url, the session refresh
\* and the redirect
uploadImageUpdate(c) ==
    /\ req[c].route = UploadImage /\ StoredFirst(c)
    /\ LET targetId == TargetId(session[c], req[c].bodyId) IN
       /\ \A p \in participants :
             p.participant_id = targetId => ~Locked("participants", p)
       /\ participants' =
            { IF p.participant_id = targetId
              THEN [p EXCEPT !.profilePictureUrl = req[c].key] ELSE p :
              p \in participants }
       /\ session' =
            IF IsOwn(targetId, session[c])
            THEN [session EXCEPT ![c].profilePictureUrl = req[c].key]
            ELSE session
    /\ req' = [req EXCEPT ![c] = Idle]
    /\ last' = Redirect(c, UploadImage, "/participants")
    /\ UNCHANGED <<users, donations, surveys, registrations, milestones,
                   event_occurrences, others>>

\* the update of participants rejects: the catch answers 500; the object
\* stays in the bucket
uploadImageUpdateFail(c) ==
    /\ req[c].route = UploadImage /\ req[c].step = 2
    /\ req' = [req EXCEPT ![c] = Idle]
    /\ last' = Resp(c, UploadImage, 500, "Error uploading image", {}, 0)
    /\ UNCHANGED <<tables, others, session>>

\* POST /participants/delete-image when its update rejects
deleteImageFail(c) ==
    /\ Free(c)
    /\ isLoggedIn(session[c])
    /\ last' = Resp(c, DeleteImage, 500, "Error deleting image", {}, 0)
    /\ UNCHANGED <<tables, others, session, req>>

\* the clock of Date.now() advances
MaxTime == 1
Tick ==
    /\ now < MaxTime
    /\ now' = now + 1
    /\ last' = Await("c1", "tick")
    /\ UNCHANGED <<tables, seq, bucket, writes, session, req>>

\* POST /participants/delete-image
deleteImage(c, bodyId) ==
    /\ Free(c)
    /\ IF ~isLoggedIn(session[c])
       THEN /\ last' = ToLogin(c, DeleteImage)
            /\ UNCHANGED <<participants, session>>
       ELSE LET targetId == TargetId(session[c], bodyId) IN
            /\ \A p \in participants :
                  p.participant_id = targetId => ~Locked("participants", p)
            /\ participants' =
                 { IF p.participant_id = targetId
                   THEN [p EXCEPT !.profilePictureUrl = NoUrl] ELSE p :
                   p \in participants }
            /\ session' =
                 IF IsOwn(targetId, session[c])
                 THEN [session EXCEPT ![c].profilePictureUrl = NoUrl]
                 ELSE session
            /\ last' = Redirect(c, DeleteImage, "/participants")
    /\ UNCHANGED <<users, donations, surveys, registrations, milestones,
                   event_occurrences, others, req>>

(***************************************************************************)
(* GET /donate, POST /donate: the public donation form.                    *)
(***************************************************************************)
Donate == "POST /donate"

\* ids the public donation form may still take from the two sequences
MaxDonors == 4

\* public donations in flight: each may still take one id of each sequence
PendingDonates == Cardinality({d \in Clients : req[d].route = Donate})

\* GET /donate: the form, filled in with the caller's participant when the
\* session has one
donateForm(c) ==
    /\ Free(c)
    /\ last' = Resp(c, "GET /donate", 200, "donate_public",
                    IF session[c].isLoggedIn /\ session[c].participantId # NoId
                    THEN {p \in participants :
                            p.participant_id = session[c].participantId}
                    ELSE {}, 0)
    /\ UNCHANGED <<tables, others, session, req>>

\* GET /donate when the query rejects: the catch logs, the form is rendered
\* with participant null
donateFormFail(c) ==
    /\ Free(c)
    /\ session[c].isLoggedIn /\ session[c].participantId # NoId
    /\ last' = Resp(c, "GET /donate", 200, "donate_public", {}, 0)
    /\ UNCHANGED <<tables, others, session, req>>

\* mutant: the lookup by email finds nothing
Existing_None(email) == {}

\* db("participants").where({ email }): .first() takes one of these rows
Existing(email) == {p \in participants : p.email = email}

\* first await: the lookup by email; the handler goes on with the id of the
\* row found, or with none
donateLookup(c, email) ==
    /\ Free(c)
    /\ seq.participants + PendingDonates < MaxDonors
    /\ seq.donations + PendingDonates < MaxDonors
    /\ IF Existing(email) # {}
       THEN \E existing \in Existing(email) :
               req' = [req EXCEPT ![c] =
                  [route |-> Donate, step |-> "donation", email |-> email,
                   participantId |-> existing.participant_id]]
       ELSE req' = [req EXCEPT ![c] =
                  [route |-> Donate, step |-> "participant", email |-> email,
                   participantId |-> NoId]]
    /\ last' = Await(c, Donate)
    /\ UNCHANGED <<tables, others, session>>

\* second await, when no row was found: insert into participants ...
\* returning participant_id
donateInsertParticipant(c) ==
    /\ req[c].route = Donate /\ req[c].step = "participant"
    /\ LET id == seq.participants + 1 IN
        /\ participants' = participants \cup
              { [participant_id |-> id, first_name |-> Bob, last_name |-> Perez,
                 email |-> req[c].email, city |-> <<>>,
                 profilePictureUrl |-> NoUrl] }
        /\ seq' = [seq EXCEPT !.participants = id]
        /\ req' = [req EXCEPT ![c] =
              [@ EXCEPT !.step = "donation", !.participantId = id]]
    /\ last' = Await(c, Donate)
    /\ UNCHANGED <<users, donations, surveys, registrations, milestones,
                   event_occurrences, bucket, now, writes, session>>

\* last await: insert into donations, then the form with the thanks
donateInsertDonation(c, amount) ==
    /\ req[c].route = Donate /\ req[c].step = "donation"
    /\ ~RefWaits(req[c].participantId)
    /\ req' = [req EXCEPT ![c] = Idle]
    /\ IF RefOk(req[c].participantId)
       THEN /\ donations' = donations \cup
                 { [donation_id |-> seq.donations + 1,
                    participant_id |-> req[c].participantId,
                    donation_amount |-> amount] }
            /\ seq' = [seq EXCEPT !.donations = seq.donations + 1]
            /\ last' = Resp(c, Donate, 200, "donate_public: Thank you", {}, 0)
       ELSE /\ last' = Resp(c, Donate, 500, "Error processing donation.", {}, 0)
            /\ UNCHANGED <<donations, seq>>
    /\ UNCHANGED <<participants, users, surveys, registrations, milestones,
                   event_occurrences, bucket, now, writes, session>>

\* one of the three statements rejects: catch (err), status 500
donateFail(c) ==
    /\ Free(c) \/ req[c].route = Donate
    /\ req' = [req EXCEPT ![c] = Idle]
    /\ last' = Resp(c, Donate, 500, "Error processing donation.", {}, 0)
    /\ UNCHANGED <<tables, others, session>>

(***************************************************************************)
(* Specifications.                                                         *)
(***************************************************************************)
Auth(c) ==
    \/ \E u \in LoginNames, pw \in Passwords : LoginFindUser(c, u, pw)
    \/ LoginFindPicture(c)
    \/ \E u \in SignupNames : SignupInsertParticipant(c, u, "pw2")
    \/ SignupInsertUser(c)
    \/ Logout(c)

\* sessions and listings
NextList ==
    \E c \in Clients :
        \/ Auth(c)
        \/ \E route \in ListRoutes, q \in Searches, pg \in PageParams :
              ListCount(c, route, q, pg)
        \/ ListData(c)

SpecList == Init /\ [][NextList]_vars

(***************************************************************************)
(* C1.  Scoping of the listings.                                           *)
(***************************************************************************)
OwnedRoutes == {"GET /participants", "GET /donations", "GET /surveys",
                "GET /milestones"}

\* the step just taken rendered one of the four owned listings
RenderedOwned == last.status = 200 /\ last.route \in OwnedRoutes

SomeIds == {1, 3}
SurveyBodies ==
    { [participant_id |-> 1, event_occurrence_id |-> 1,
       score_recommendation |-> <<"5">>, nps_bucket_id |-> 1] }
UserBodies ==
    { [username |-> "bob", password |-> "pw1", role |-> "manager",
       participant_id |-> 2] }

ManagerRoute(c) ==
    \/ participantsAddForm(c)
    \/ \E returnTo \in {"", "donations_add"} : participantsAdd(c, returnTo)
    \/ \E id \in SomeIds : participantsEditForm(c, id)
    \/ participantsEdit(c, 1, Bob, <<>>)
    \/ participantsDeleteBegin(c, 1)
    \/ donationsAddForm(c)
    \/ donationsAdd(c, 1, 9)
    \/ \E id \in SomeIds : donationsEditForm(c, id)
    \/ donationsEdit(c, 1, 2, 9)
    \/ donationsDelete(c, 1)
    \/ surveysAddForm(c)
    \/ \E b \in SurveyBodies : surveysAdd(c, b)
    \/ \E b \in SurveyBodies : surveysAddComputed(c, b)
    \/ \E id \in SomeIds : surveysEditForm(c, id)
    \/ \E b \in SurveyBodies : surveysEdit(c, 1, b)
    \/ surveysDelete(c, 1)
    \/ eventsAddForm(c)
    \/ eventsAdd(c, Goal)
    \/ \E id \in SomeIds : eventsEditForm(c, id)
    \/ eventsEdit(c, 1, Park)
    \/ eventsDelete(c, 2)
    \/ milestonesAddForm(c)
    \/ milestonesAdd(c, 2)
    \/ \E id \in SomeIds : milestonesEditForm(c, id)
    \/ milestonesEdit(c, 1, 2)
    \/ milestonesDelete(c, 1)
    \/ usersList(c)
    \/ usersAddForm(c)
    \/ \E b \in UserBodies : usersAdd(c, b)
    \/ \E id \in SomeIds : usersEditForm(c, id)
    \/ \E b \in UserBodies : usersEdit(c, 2, b)
    \/ \E id \in {1, 2} : usersDelete(c, id)

\* the steps of a cascade delete after its start
CascadeSteps(c) ==
    \/ participantsDeleteStatement(c)
    \/ participantsDeleteFail(c)
    \/ participantsDeleteCommit(c)

LoggedInRoute(c) ==
    \/ dashboardBegin(c)
    \/ dashboardDonations(c)
    \/ dashboardEvents(c)
    \/ \E route \in ListRoutes : ListCount(c, route, <<>>, <<>>)
    \/ ListData(c)
    \/ teapot(c)
    \/ surveyForm(c, 1)
    \/ \E id \in SomeIds : surveyView(c, id)
    \/ submitSurveyCheck(c, 1, <<"4">>)
    \/ submitSurveyInsert(c)
    \/ submitSurveyFail(c)
    \/ \E name \in {"", "a.png"} : uploadImageBegin(c, name, <<>>)
    \/ uploadImageStored(c)
    \/ uploadImageRejected(c)
    \/ uploadImageUpdate(c)
    \/ deleteImage(c, <<>>)

\* the credentials the clients try where the login guard is examined
GuardLogin(c) ==
    \/ LoginFindUser(c, "boss", "pw1")
    \/ LoginFindUser(c, "ana", "pw2")
    \/ LoginFindUser(c, "ana", "pw1")
    \/ LoginFindPicture(c)
    \/ Logout(c)

\* one client logs in as the manager, the other as a user
NextManager ==
    \/ \E c \in {"c1"} : LoginFindUser(c, "boss", "pw1")
    \/ \E c \in {"c2"} : LoginFindUser(c, "ana", "pw2")
    \/ \E c \in Clients :
          \/ LoginFindUser(c, "ana", "pw1")
          \/ LoginFindPicture(c)
          \/ Logout(c)
          \/ ManagerRoute(c)
          \/ CascadeSteps(c)

SpecManager == Init /\ [][NextManager]_vars

NextLoggedIn ==
    \E c \in Clients : GuardLogin(c) \/ LoggedInRoute(c)

SpecLoggedIn == Init /\ [][NextLoggedIn]_vars

(***************************************************************************)
(* C2.  The manager guard.                                                 *)
(***************************************************************************)
Resources == {"participants", "donations", "surveys", "events", "milestones",
              "users"}

\* the add, edit and delete routes of the six resources
CrudRoutes ==
    UNION { { "GET /" \o r \o "/add", "POST /" \o r \o "/add",
              "GET /" \o r \o "/edit/:id", "POST /" \o r \o "/edit/:id",
              "POST /" \o r \o "/delete/:id" } : r \in Resources }

LoggedInRoutes ==
    ListRoutes \cup {"GET /dashboard", UploadImage, DeleteImage,
                     "GET /survey/:eventId", "GET /survey/view/:surveyId",
                     SubmitSurvey}

\* C3: a step of a route guarded by isLoggedIn, taken for a session without
\* the logged-in flag, redirects to /login, returns no row, leaves no query
\* pending, and changes no table, no object of the bucket and no session.
C3_LoginFirst ==
    [][ (/\ last'.route \in LoggedInRoutes
         /\ ~session[last'.client].isLoggedIn)
        => (/\ last'.status = 302 /\ last'.to = "/login"
            /\ last'.rows = {}
            /\ UNCHANGED <<tables, seq, bucket, session, req>>) ]_vars

\* a client that is not logged in sent a file to the upload route and was
\* redirected to /login
C3_Witness ==
    /\ last.route = UploadImage
    /\ last.status = 302 /\ last.to = "/login"
    /\ ~session[last.client].isLoggedIn
    /\ bucket = {}

(***************************************************************************)
(* C6.  Self-deletion.                                                     *)
(***************************************************************************)
\* the users row a session was opened for
OwnRow(sess) == {u \in users : u.username = sess.username}

\* C6: POST /users/delete/:id by a logged-in manager whose own users row has
\* user_id = :id is answered with a client error, and the row still exists.
C6_NoSelfDelete ==
    [][ \A c \in Clients, id \in 1..MaxUsers :
          (/\ usersDelete(c, id)
           /\ session[c].isLoggedIn /\ session[c].role = "manager"
           /\ \E u \in OwnRow(session[c]) : u.user_id = id)
          => (/\ last'.status >= 400 /\ last'.status < 500
              /\ \E u \in users' : u.user_id = id) ]_vars

(***************************************************************************)
(* C4, C5.  The cascade delete of a participant, next to a manager who     *)
(* adds a donation and to readers of the listings.                         *)
(***************************************************************************)
NextCascade ==
    \E c \in Clients :
        \/ LoginFindUser(c, "boss", "pw1")
        \/ \E id \in 1..MaxParticipants : participantsDeleteBegin(c, id)
        \/ participantsDeleteStatement(c)
        \/ participantsDeleteFail(c)
        \/ participantsDeleteCommit(c)
        \/ \E pid \in 1..MaxParticipants : donationsAdd(c, pid, 5)
        \/ \E route \in {"GET /participants", "GET /donations"} :
              ListCount(c, route, <<>>, <<>>)
        \/ ListData(c)

SpecCascade == Init /\ [][NextCascade]_vars

\* the rows of a table that belong to participants other than id
OfOthers(T, id) == {r \in T : r.participant_id # id}

\* C4: the step that completes POST /participants/delete/:id successfully
\* leaves no row with that participant_id in donations, surveys,
\* registrations, milestones, users and participants, and leaves the rows of
\* every other participant as they were.
C4_CascadeRemovesAll ==
    [][ \A c \in Clients :
          (InTrx(c) /\ last' = Redirect(c, Cascade, "/participants"))
          => LET id == req[c].targetId
             IN /\ \A r \in donations' \cup surveys' \cup registrations'
                          \cup milestones' \cup users' \cup participants' :
                       r.participant_id # id
                /\ OfOthers(donations', id) = OfOthers(donations, id)
                /\ OfOthers(surveys', id) = OfOthers(surveys, id)
                /\ OfOthers(registrations', id) = OfOthers(registrations, id)
                /\ OfOthers(milestones', id) = OfOthers(milestones, id)
                /\ OfOthers(users', id) = OfOthers(users, id)
                /\ OfOthers(participants', id) = OfOthers(participants, id) ]_vars

\* participant 1 (Ana) was deleted with her donation, survey rows, milestone
\* and users row; Bob's rows and the manager's users row are there
C4_Witness ==
    /\ last.route = Cascade /\ last.status = 302
    /\ participants = {p \in SeedParticipants : p.participant_id = 2}
    /\ donations = {d \in SeedDonations : d.participant_id = 2}
    /\ users = {u \in SeedUsers : u.username = "boss"}
    /\ milestones = OfOthers(SeedMilestones, 1)
    /\ registrations = OfOthers(SeedRegistrations, 1)
    /\ surveys = SeedSurveys

\* C5: the cascade is all-or-nothing.  A step of the request other than its
\* successful end changes none of the tables, so that no other request reads
\* a state with part of the participant's rows removed; and when the request
\* ends otherwise than by its commit, the response is the generic 500.
C5_AllOrNothing ==
    [][ \A c \in Clients :
          (InTrx(c) /\ last'.client = c)
          => /\ last' # Redirect(c, Cascade, "/participants")
                  => UNCHANGED tables
             /\ (~InTrx(c)' /\ last' # Redirect(c, Cascade, "/participants"))
                  => last' = CascadeError(c) ]_vars

\* while a cascade has executed its delete of donations and has not ended,
\* another manager's listing of the donations returns the rows it deleted
C5_Witness ==
    /\ last.route = "GET /donations" /\ last.status = 200
    /\ \E d \in Clients \ {last.client} :
          /\ InTrx(d)
          /\ req[d].deleted.donations # {}
          /\ \A x \in req[d].deleted.donations :
                \E r \in last.rows : r.donation_id = x.donation_id

(***************************************************************************)
(* C7.  POST /submit-survey, requests one after the other.                 *)
(***************************************************************************)
EventIds == {1, 2}

\* no request starts while another is being handled
NextSubmitSeq ==
    \E c \in Clients :
        /\ \A d \in Clients \ {c} : Free(d)
        /\ \/ LoginFindUser(c, "ana", "pw2")
           \/ LoginFindPicture(c)
           \/ LoginFindUser(c, "boss", "pw1")
           \/ Logout(c)
           \/ \E e \in EventIds, recommend \in {<<"4">>, <<"5">>} :
                 submitSurveyCheck(c, e, recommend)
           \/ submitSurveyInsert(c)
           \/ submitSurveyFail(c)

SpecSubmitSeq == Init /\ [][NextSubmitSeq]_vars

\* at most one survey row per (participant_id, event_occurrence_id)
OnePerPair ==
    \A r1, r2 \in surveys :
       (/\ r1.participant_id = r2.participant_id
        /\ r1.event_occurrence_id = r2.event_occurrence_id) => r1 = r2

\* C7: when a survey row for (session participantId, event_id) exists,
\* POST /submit-survey inserts nothing, leaves the surveys table unchanged,
\* ends the request and redirects to /events; and with requests handled one
\* after the other the table never holds two rows for one pair.
C7_SubmitOnce ==
    /\ []OnePerPair
    /\ [][ \A c \in Clients, e \in EventIds, recommend \in {<<"4">>, <<"5">>} :
             (/\ submitSurveyCheck(c, e, recommend)
              /\ session[c].isLoggedIn
              /\ \E r \in surveys : /\ r.participant_id = session[c].participantId
                                   /\ r.event_occurrence_id = e)
             => (/\ surveys' = surveys /\ seq' = seq
                 /\ req'[c] = Idle
                 /\ last'.status = 302 /\ last'.to = "/events") ]_vars

\* ana submitted her survey of event 1, submitted it again and was
\* redirected: the query found the row of the first submission, the only one
C7_Witness ==
    /\ last.route = SubmitSurvey /\ last.status = 302 /\ last.to = "/events"
    /\ \E r \in last.rows : /\ r.survey_id = 2
                            /\ r.participant_id = 1
                            /\ r.event_occurrence_id = 1
    /\ Cardinality(surveys) = 2

(***************************************************************************)
(* C8, C10.  The three routes that write surveys, interleaved.             *)
(***************************************************************************)
NextSurvey ==
    \E c \in Clients :
        \/ LoginFindUser(c, "ana", "pw2")
        \/ LoginFindPicture(c)
        \/ LoginFindUser(c, "boss", "pw1")
        \/ Logout(c)
        \/ \E e \in EventIds : submitSurveyCheck(c, e, <<"4">>)
        \/ submitSurveyInsert(c)
        \/ submitSurveyFail(c)
        \/ \E body \in SurveyBodies : surveysAdd(c, body)
        \/ \E body \in SurveyBodies : surveysAddComputed(c, body)
        \/ \E body \in SurveyBodies : surveysEdit(c, 1, body)

SpecSurvey == Init /\ [][NextSurvey]_vars

\* C8: in every reachable state the surveys table holds at most one row per
\* (participant_id, event_occurrence_id), whatever the interleaving of
\* POST /submit-survey, POST /surveys/add and POST /surveys/edit/:id.
C8_OnePerPairAlways ==
    \A p \in 0..MaxParticipants, e \in EventIds :
       Cardinality({r \in surveys : /\ r.participant_id = p
                                    /\ r.event_occurrence_id = e}) <= 1

(***************************************************************************)
(* C9, C10.  The NPS bucket of a recommend score.                          *)
(***************************************************************************)
\* a decimal numeral: an optional minus sign and digits, nothing else
IsNumeral(str) ==
    LET body == IF str # <<>> /\ Head(str) = "-" THEN Tail(str) ELSE str
    IN body # <<>> /\ \A i \in 1..Len(body) : body[i] \in Digits

RECURSIVE DecValue(_)
DecValue(ds) ==
    IF ds = <<>> THEN 0
    ELSE 10 * DecValue(SubSeq(ds, 1, Len(ds) - 1)) + DigitVal(ds[Len(ds)])

\* the bucket the rule gives a submitted score: 1 for 1..3, 2 for 4, 3 for 5,
\* null (0) for every other value and for what is not a number
RuleBucket(str) ==
    IF ~IsNumeral(str) \/ Head(str) = "-" THEN NoId
    ELSE LET r == DecValue(str)
         IN IF r >= 1 /\ r <= 3 THEN 1
            ELSE IF r = 4 THEN 2
            ELSE IF r = 5 THEN 3
            ELSE NoId

\* the recommend fields submitted: missing, 0..6, -1, 10, and three strings
\* that are not whole numbers
Recommends ==
    {<<>>, <<"0">>, <<"1">>, <<"2">>, <<"3">>, <<"4">>, <<"5">>, <<"6">>,
     <<"-", "1">>, <<"1", "0">>, <<"4", "x">>, <<"x", "4">>, <<"4", ".", "5">>}

NextNps ==
    \E c \in Clients :
        \/ LoginFindUser(c, "ana", "pw2")
        \/ LoginFindPicture(c)
        \/ \E recommend \in Recommends : submitSurveyCheck(c, 1, recommend)
        \/ submitSurveyInsert(c)
        \/ submitSurveyFail(c)

SpecNps == Init /\ [][NextNps]_vars

\* C9: the row POST /submit-survey inserts for a recommend score r has
\* nps_bucket_id 1 if 1 <= r <= 3, 2 if r = 4, 3 if r = 5, and null for every
\* other value: 0, negatives, values above 5, a missing score, a score that
\* is not a number.
C9_BucketOfScore ==
    [][ \A c \in Clients :
          (req[c].route = SubmitSurvey /\ last'.client = c)
          => \A r \in surveys' \ surveys :
                r.nps_bucket_id = RuleBucket(r.score_recommendation) ]_vars

\* C10: in every reachable state every stored survey row has the bucket of
\* its score_recommendation, whichever of POST /submit-survey,
\* POST /surveys/add and POST /surveys/edit/:id wrote it.
C10_BucketDerived ==
    \A r \in surveys : r.nps_bucket_id = RuleBucket(r.score_recommendation)

(***************************************************************************)
(* C11.  Pagination of GET /participants over a table of up to MaxRows     *)
(* participants, listed by a manager.                                      *)
(***************************************************************************)
MaxRows == 250

Sizes == {0, 1, 100, 101, 200, MaxRows}

ManyParticipants(T) ==
    { [participant_id |-> i, first_name |-> Ana, last_name |-> Perez,
       email |-> AnaMail, city |-> Provo, profilePictureUrl |-> NoUrl] :
      i \in 1..T }

\* the server starts on a database with T participants and the manager's
\* users row
InitPage ==
    /\ \E T \in Sizes :
          /\ participants = ManyParticipants(T)
          /\ seq = [participants |-> T, users |-> 1, donations |-> 0,
                    surveys |-> 0, events |-> 2, milestones |-> 0]
    /\ users = {u \in SeedUsers : u.username = "boss"}
    /\ donations = {}
    /\ surveys = {}
    /\ registrations = {}
    /\ milestones = {}
    /\ event_occurrences = SeedEvents
    /\ bucket = {}
    /\ now = 0
    /\ writes = 0
    /\ session = [c \in Clients |-> NoSession]
    /\ req = [c \in Clients |-> Idle]
    /\ last = Await("c1", "none")

NextPage ==
    \E c \in Clients :
        \/ LoginFindUser(c, "boss", "pw1")
        \/ \E pageParam \in {<<>>, <<"1">>, <<"2">>, <<"3">>, <<"4">>} :
              ListCount(c, "GET /participants", <<>>, pageParam)
        \/ ListData(c)

SpecPage == InitPage /\ [][NextPage]_vars

\* C11: with T matching rows, the listing of page p >= 1 shows
\* totalPages = ceil(T / 100), the least n with n * 100 >= T, and returns
\* exactly the rows at positions (p-1)*100+1 .. min(p*100, T) of the result
\* ordered by participant_id (here position i is participant_id i): 100 rows
\* on every page but the last, none beyond totalPages.
C11_Pages ==
    [][ \A c \in Clients :
          (req[c].route = "GET /participants" /\ last'.client = c
           /\ req[c].page >= 1)
          => LET T == Cardinality(participants)
                 p == req[c].page
                 hi == IF p * 100 < T THEN p * 100 ELSE T
             IN /\ last'.status = 200
                /\ last'.totalPages * 100 >= T
                /\ (last'.totalPages - 1) * 100 < T \/ last'.totalPages = 0
                /\ last'.rows =
                     {r \in participants :
                        r.participant_id \in ((p - 1) * 100 + 1)..hi}
                /\ p < last'.totalPages => Cardinality(last'.rows) = 100
                /\ p = last'.totalPages =>
                     Cardinality(last'.rows) = T - (last'.totalPages - 1) * 100
                /\ p > last'.totalPages => last'.rows = {} ]_vars

\* page 3 of 250 participants: 50 rows, the ids 201..250, totalPages 3
C11_Witness ==
    /\ last.route = "GET /participants" /\ last.status = 200
    /\ last.totalPages = 3
    /\ Cardinality(last.rows) = 50
    /\ \A r \in last.rows : r.participant_id > 200
    /\ Cardinality(participants) = 250

(***************************************************************************)
(* C12, C13.  POST /login, with known and unknown usernames, right and     *)
(* wrong passwords, failing queries, and a picture that changes between    *)
(* logins.                                                                 *)
(***************************************************************************)
TriedNames == {"boss", "ana", "nobody"}

NextLogin ==
    \E c \in Clients :
        \/ \E u \in TriedNames, pw \in Passwords : LoginFindUser(c, u, pw)
        \/ LoginFindPicture(c)
        \/ LoginFail(c)
        \/ LoginPictureFail(c)
        \/ Logout(c)
        \/ uploadImageBegin(c, "a.png", <<>>)
        \/ uploadImageStored(c)
        \/ uploadImageUpdate(c)
        \/ deleteImage(c, <<>>)

SpecLogin == Init /\ [][NextLogin]_vars

\* C12: a POST /login whose credentials match no users row is answered in
\* one and the same way, the login form with 'Invalid credentials', whether
\* the username is unknown or known with another password, and changes
\* neither the session nor the database.
C12_SameRefusal ==
    [][ \A c \in Clients, u \in TriedNames, pw \in Passwords :
          (/\ LoginFindUser(c, u, pw)
           /\ ~ \E r \in users : r.username = u /\ r.password = pw)
          => (/\ last' = Resp(c, "POST /login", 200,
                              "login: Invalid credentials", {}, 0)
              /\ UNCHANGED <<tables, seq, bucket, session, req>>) ]_vars

\* ana, logged in, tries the password of another user on her own username:
\* she is refused as an unknown username is, and stays logged in
C12_Witness ==
    /\ last = Resp(last.client, "POST /login", 200,
                   "login: Invalid credentials", {}, 0)
    /\ session[last.client].isLoggedIn
    /\ session[last.client].username = "ana"
    /\ \E d \in Clients \ {last.client} : ~session[d].isLoggedIn

\* C13: POST /login goes on to a successful login exactly when a users row
\* has the submitted username and password; the session then holds
\* isLoggedIn and the username, role and participant_id of that row, and
\* when the login of a linked row ends with its redirect, the picture
\* reference stored for that participant.
C13_LoginExact ==
    [][ /\ \A c \in Clients, u \in TriedNames, pw \in Passwords :
             LoginFindUser(c, u, pw)
             => LET rows == {r \in users : r.username = u /\ r.password = pw}
                IN IF rows = {}
                   THEN /\ session' = session /\ req' = req
                        /\ last'.status = 200
                   ELSE \E r \in rows :
                        /\ session'[c].isLoggedIn
                        /\ session'[c].username = r.username
                        /\ session'[c].role = r.role
                        /\ session'[c].participantId = r.participant_id
                        /\ IF r.participant_id = NoId
                           THEN last'.status = 302
                           ELSE req'[c].route = "POST /login"
        /\ \A c \in Clients :
             (req[c].route = "POST /login" /\ last'.client = c
              /\ last'.status = 302)
             => /\ session'[c].isLoggedIn
                /\ session'[c].username = req[c].user.username
                /\ session'[c].role = req[c].user.role
                /\ session'[c].participantId = req[c].user.participant_id
                /\ \A p \in participants :
                      p.participant_id = req[c].user.participant_id
                      => session'[c].profilePictureUrl = p.profilePictureUrl
      ]_vars

\* ana logs in on a second client after she stored a picture from the
\* first: the new session holds that picture's reference
C13_Witness ==
    /\ last.route = "POST /login" /\ last.status = 302
    /\ session[last.client].username = "ana"
    /\ session[last.client].profilePictureUrl # NoUrl
    /\ \E p \in participants :
          /\ p.participant_id = 1
          /\ p.profilePictureUrl = session[last.client].profilePictureUrl

(***************************************************************************)
(* C14.  GET /logout, and what the guards answer afterwards.  The requests *)
(* of one client are handled one at a time.                                *)
(***************************************************************************)
NextLogout ==
    \E c \in Clients :
        \/ \E u \in {"boss", "ana"}, pw \in Passwords : LoginFindUser(c, u, pw)
        \/ LoginFindPicture(c)
        \/ SignupInsertParticipant(c, "superuser", "pw2")
        \/ SignupInsertUser(c)
        \/ Logout(c)
        \/ \E route \in {"GET /donations", "GET /events"} :
              ListCount(c, route, <<>>, <<>>)
        \/ ListData(c)
        \/ teapot(c)
        \/ usersList(c)
        \/ donationsAddForm(c)
        \/ usersDelete(c, 3)

SpecLogout == Init /\ [][NextLogout]_vars

ImageBodies == {<<>>, <<"1">>, <<"2">>, <<"3">>}

NextImage ==
    \/ Tick
    \/ \E c \in {"c1"} : LoginFindUser(c, "boss", "pw1")
    \/ \E c \in {"c2"} : LoginFindUser(c, "ana", "pw2")
    \/ \E c \in Clients :
          \/ LoginFindPicture(c)
          \/ \E name \in {"", "a.png"}, b \in ImageBodies :
                uploadImageBegin(c, name, b)
          \/ uploadImageStored(c)
          \/ uploadImageRejected(c)
          \/ uploadImageUpdate(c)
          \/ uploadImageUpdateFail(c)
          \/ \E b \in ImageBodies : deleteImage(c, b)
          \/ deleteImageFail(c)

SpecImage == Init /\ [][NextImage]_vars

\* the participant the rule names: the form's when the role is 'manager'
\* and the form carries one, the session's own otherwise
RuleTarget(sess, bodyId) ==
    IF sess.role = "manager" /\ bodyId # <<>> THEN DecValue(bodyId)
    ELSE sess.participantId

\* client c's upload ends with its redirect
UploadEnds(c) ==
    /\ req[c].route = UploadImage
    /\ last' = Redirect(c, UploadImage, "/participants")

\* the participants, one of them with another picture reference
WithPicture(id, url) ==
    { IF p.participant_id = id THEN [p EXCEPT !.profilePictureUrl = url] ELSE p :
      p \in participants }

\* C15: an upload or a deletion of a picture writes the picture reference of
\* the participant the rule names and of no other (of none when no
\* participant has that id); a session whose role is not 'manager' changes
\* no row but its own participant's, whatever the form carries.
C15_OneTarget ==
    [][ \A c \in Clients :
          /\ UploadEnds(c)
               => participants' =
                    WithPicture(RuleTarget(session[c], req[c].bodyId), req[c].key)
          /\ \A b \in ImageBodies :
               (deleteImage(c, b) /\ session[c].isLoggedIn)
               => participants' = WithPicture(RuleTarget(session[c], b), NoUrl)
          /\ (last'.client = c /\ last'.route \in {UploadImage, DeleteImage}
              /\ session[c].role # "manager")
               => \A p \in participants \ participants' :
                     p.participant_id = session[c].participantId ]_vars

\* boss, a manager linked to no participant, sent a file with
\* participant_id 2 in the form: participant 2 has the picture, no other
C15_Witness ==
    /\ last = Redirect(last.client, UploadImage, "/participants")
    /\ session[last.client].username = "boss"
    /\ \A d \in Clients \ {last.client} : ~session[d].isLoggedIn
    /\ \A p \in participants :
          (p.profilePictureUrl # NoUrl) = (p.participant_id = 2)
    /\ bucket # {}

\* C16: when the upload or the deletion is for the caller's own participant,
\* the session's profilePictureUrl is the newly stored value when the
\* redirect is sent; otherwise no session changes.
C16_SessionRefresh ==
    [][ \A c \in Clients :
          /\ UploadEnds(c)
               => LET t == RuleTarget(session[c], req[c].bodyId)
                  IN session' =
                       IF t # NoId /\ t = session[c].participantId
                       THEN [session EXCEPT ![c].profilePictureUrl = req[c].key]
                       ELSE session
          /\ \A b \in ImageBodies :
               (deleteImage(c, b) /\ session[c].isLoggedIn)
               => LET t == RuleTarget(session[c], b)
                  IN session' =
                       IF t # NoId /\ t = session[c].participantId
                       THEN [session EXCEPT ![c].profilePictureUrl = NoUrl]
                       ELSE session ]_vars

\* ana's upload has ended: her session holds the new reference, which is
\* also the one stored for her participant
C16_Witness ==
    /\ last = Redirect(last.client, UploadImage, "/participants")
    /\ session[last.client].username = "ana"
    /\ session[last.client].profilePictureUrl \in bucket
    /\ \E p \in participants :
          /\ p.participant_id = 1
          /\ p.profilePictureUrl = session[last.client].profilePictureUrl

\* every stored picture reference names an object of the bucket
RefsStored ==
    \A p \in participants :
       p.profilePictureUrl # NoUrl => p.profilePictureUrl \in bucket

\* The part of C17 about the order of the two writes: the upload writes the
\* participant's picture reference only after its object has been stored;
\* when the bucket rejects the object or no file was sent, participants,
\* sessions and bucket are unchanged; and no reference is ever stored
\* without its object.
C17_StoreThenRow ==
    /\ []RefsStored
    /\ [][ \A c \in Clients :
             /\ (last'.client = c /\ last'.route = UploadImage
                 /\ participants' # participants)
                  => (req[c].route = UploadImage /\ req[c].key \in bucket)
             /\ (last'.client = c /\ last'.route = UploadImage
                 /\ (last'.status = 500 \/ req[c].route # UploadImage))
                  => UNCHANGED <<participants, session>>
             /\ (last' = Resp(c, UploadImage, 500, "Internal Server Error", {}, 0)
                 \/ (last'.client = c /\ last'.route = UploadImage
                     /\ req[c].route # UploadImage /\ req'[c].route # UploadImage))
                  => UNCHANGED <<tables, bucket, session>> ]_vars

\* the bucket has rejected ana's file: nothing stored, her row and her
\* session as before
C17_Witness ==
    /\ last = Resp(last.client, UploadImage, 500, "Internal Server Error", {}, 0)
    /\ session[last.client].username = "ana"
    /\ session[last.client].profilePictureUrl = NoUrl
    /\ bucket = {}
    /\ participants = SeedParticipants

\* C17 as stated: the above, and an upload that ends in an error leaves
\* nothing of its own behind, neither a row that was written nor an object
\* in the bucket.
C17_NoPartialState ==
    /\ C17_StoreThenRow
    /\ [][ \A c \in Clients :
             (/\ req[c].route = UploadImage /\ req[c].step = 2
              /\ last'.client = c /\ last'.route = UploadImage
              /\ last'.status = 500)
             => (req[c].key \notin bucket' /\ UNCHANGED <<participants, session>>)
       ]_vars

\* C18: two uploads in flight at once, the same original filename
\* included, are stored under different keys, so that neither overwrites
\* the other's object.
C18_DistinctKeys ==
    \A c \in Clients : \A d \in Clients \ {c} :
       (req[c].route = UploadImage /\ req[d].route = UploadImage)
       => req[c].key # req[d].key

(***************************************************************************)
(* C19.  Two browsers send the public donation form, with an email the     *)
(* database knows and with one it does not, at any interleaving.           *)
(***************************************************************************)
DonorMails == {AnaMail, NewMail}
Gifts == {5, 9}

NextDonate ==
    \E c \in Clients :
       \/ LoginFindUser(c, "ana", "pw2")
       \/ LoginFindPicture(c)
       \/ donateForm(c)
       \/ \E email \in DonorMails : donateLookup(c, email)
       \/ donateInsertParticipant(c)
       \/ \E amount \in Gifts : donateInsertDonation(c, amount)

SpecDonate == Init /\ [][NextDonate]_vars

\* the participants that have this email
WithEmail(email) == {p \in participants : p.email = email}

\* C19: POST /donate reuses a participant its lookup finds, and inserts one
\* when the lookup finds none; an insert that directly follows its own
\* lookup, no step of another request in between, never adds a second
\* participant with the email, so that requests handled one after the other
\* leave no duplicate; only a step of another request between the lookup
\* and the insert can (the witness is that interleaving).
C19_FindOrCreate ==
    [][ \A c \in Clients :
          /\ \A email \in DonorMails :
               (donateLookup(c, email) /\ WithEmail(email) # {})
               => /\ req'[c].step = "donation"
                  /\ \E p \in WithEmail(email) :
                        req'[c].participantId = p.participant_id
          /\ ((\E amount \in Gifts : donateInsertDonation(c, amount))
              /\ last'.status = 200)
               => /\ participants' = participants
                  /\ \E g \in donations' \ donations :
                        g.participant_id = req[c].participantId
          /\ (donateInsertParticipant(c) /\ last = Await(c, Donate))
               => WithEmail(req[c].email) = {} ]_vars

\* both requests have been answered with the thanks, and two participants
\* have the new email
C19_Witness ==
    /\ Cardinality(WithEmail(NewMail)) = 2
    /\ \A c \in Clients : Free(c)
    /\ last.route = Donate /\ last.status = 200
    /\ \A p \in WithEmail(NewMail) :
          \E g \in donations : g.participant_id = p.participant_id

(***************************************************************************)
(* C20.  Requests during which a database statement fails: a rejected      *)
(* query at login, on the dashboard, on the donation form, and a foreign   *)
(* key violation in the manager's donation form.                           *)
(***************************************************************************)
NextFail ==
    \/ \E c \in {"c1"} : LoginFindUser(c, "boss", "pw1")
    \/ \E c \in {"c2"} : LoginFindUser(c, "ana", "pw2")
    \/ \E c \in Clients :
          \/ LoginFindPicture(c)
          \/ LoginFail(c)
          \/ LoginPictureFail(c)
          \/ dashboardBegin(c)
          \/ dashboardDonations(c)
          \/ dashboardEvents(c)
          \/ dashboardFail(c)
          \/ donateForm(c)
          \/ donateFormFail(c)
          \/ donateLookup(c, NewMail)
          \/ donateInsertParticipant(c)
          \/ donateInsertDonation(c, 9)
          \/ donateFail(c)
          \/ donationsAdd(c, 3, 5)
          \/ deleteImageFail(c)

SpecFail == Init /\ [][NextFail]_vars

\* a step of client c in which a database statement fails
DbFails(c) ==
    \/ LoginFail(c)
    \/ LoginPictureFail(c)
    \/ dashboardFail(c)
    \/ donateFormFail(c)
    \/ donateFail(c)
    \/ deleteImageFail(c)
    \/ isManager(session[c]) /\ ~RefOk(3) /\ donationsAdd(c, 3, 5)

\* C20: a step in which a database statement fails ends the request with a
\* response of status 500 or above.
C20_Fails500 ==
    [][ \A c \in Clients :
          DbFails(c) => (last'.status >= 500 /\ req'[c] = Idle) ]_vars

(***************************************************************************)
(* C21.  The manager's dashboard while a donor sends the public donation   *)
(* form.  Rows are only inserted here, by one request at a time, so the    *)
(* tables of every earlier instant can be read off the ids of the rows.    *)
(***************************************************************************)
NextDash ==
    \/ LoginFindUser("c1", "boss", "pw1")
    \/ \E c \in Clients :
          \/ dashboardBegin(c)
          \/ dashboardDonations(c)
          \/ dashboardEvents(c)
    \/ \E email \in DonorMails : donateLookup("c2", email)
    \/ donateInsertParticipant("c2")
    \/ donateInsertDonation("c2", 9)

SpecDash == Init /\ [][NextDash]_vars

\* the id of the first donation given by participant a, or the next id of
\* the sequence when there is none yet
FirstGift(a) ==
    LET ids == {g.donation_id : g \in {h \in donations : h.participant_id = a}}
    IN IF ids = {} THEN seq.donations + 1
       ELSE CHOOSE i \in ids : \A j \in ids : i <= j

\* there was an instant with a participants and b donations: the rows with
\* ids up to a and up to b; a donation is inserted after its participant,
\* and a participant the form creates directly before its first donation
WasInstant(a, b) ==
    /\ a \in Cardinality(SeedParticipants)..seq.participants
    /\ b \in Cardinality(SeedDonations)..seq.donations
    /\ \A g \in donations : g.donation_id <= b => g.participant_id <= a
    /\ a > Cardinality(SeedParticipants) => b >= FirstGift(a) - 1

\* C21: the counts a manager's dashboard renders are the row counts of
\* participants, donations and event_occurrences at one single instant.
C21_OneInstant ==
    [][ \A c \in Clients :
          (dashboardEvents(c) /\ session[c].role = "manager")
          => \A r \in last'.rows :
                /\ WasInstant(r.participants, r.donations)
                /\ r.events = Cardinality(event_occurrences) ]_vars

(***************************************************************************)
(* C22.  The five listings, with and without a search term, requested by   *)
(* a user and by a manager while a donor sends the public donation form.   *)
(***************************************************************************)
RaceSearches == {<<>>, <<"9">>, <<"P">>}

NextListRace ==
    \/ LoginFindUser("c1", "ana", "pw2")
    \/ LoginFindUser("c1", "boss", "pw1")
    \/ LoginFindPicture("c1")
    \/ Logout("c1")
    \/ \E route \in ListRoutes, q \in RaceSearches : ListCount("c1", route, q, <<>>)
    \/ ListData("c1")
    \/ \E email \in DonorMails : donateLookup("c2", email)
    \/ donateInsertParticipant("c2")
    \/ donateInsertDonation("c2", 9)

SpecListRace == Init /\ [][NextListRace]_vars

\* n is the ceiling of m / 100
IsCeil(n, m) == n * limit >= m /\ (n - 1) * limit < m

Demoted == [username |-> "boss", password |-> "pw1", role |-> "user",
            participant_id |-> NoId]

NextStale ==
    \/ LoginFindUser("c1", "boss", "pw1")
    \/ LoginFindUser("c2", "ana", "pw2")
    \/ SignupInsertParticipant("c2", "superuser", "pw1")
    \/ \E c \in Clients :
          \/ LoginFindPicture(c)
          \/ SignupInsertUser(c)
          \/ Logout(c)
          \/ teapot(c)
          \/ donationsAddForm(c)
          \/ \E b \in UserBodies : usersEdit(c, 2, b)
          \/ usersEdit(c, 1, Demoted)
          \/ usersDelete(c, 2)
          \/ participantsDeleteBegin(c, 1)
          \/ CascadeSteps(c)

SpecStale == Init /\ [][NextStale]_vars

\* the fields of a session that say who it belongs to
Identity(sess) ==
    <<sess.isLoggedIn, sess.username, sess.role, sess.participantId>>

\* C23: the logged-in flag, username, role and participantId of a session
\* change only in a step of that session's own POST /login, POST /signup or
\* GET /logout; a logged-in session passes isLoggedIn, and one with role
\* 'manager' passes isManager, whatever the users table holds by then.
C23_SessionTrusted ==
    [][ \A c \in Clients :
          /\ Identity(session'[c]) # Identity(session[c])
               => /\ last'.client = c
                  /\ last'.route \in {"POST /login", "POST /signup", "GET /logout"}
          /\ (teapot(c) /\ session[c].isLoggedIn) => last'.status = 418
          /\ (donationsAddForm(c) /\ session[c].isLoggedIn
              /\ session[c].role = "manager") => last'.status = 200 ]_vars

\* ana's users row is gone or no longer hers, her session still says user
\* and has just passed the login guard
C23_Witness ==
    /\ last = Resp(last.client, "GET /teapot", 418, "teapot", {}, 0)
    /\ session[last.client].username = "ana"
    /\ session[last.client].role = "user"
    /\ ~ \E u \in users : u.username = "ana"

(***************************************************************************)
(* C24.  The edit forms, requested for an id that matches no row.          *)
(***************************************************************************)
EditFormRoutes == { "GET /" \o r \o "/edit/:id" : r \in Resources }

\* C24: GET <resource>/edit/:id of a manager, for an id that matches no row
\* (the step loads no row), is answered with a client error or a redirect,
\* not with the edit form.
C24_NotFound ==
    [][ \A c \in Clients :
          (/\ last'.client = c /\ last'.route \in EditFormRoutes
           /\ isManager(session[c]) /\ last'.rows = {})
          => (last'.status \in 400..499 \/ last'.status = 302) ]_vars

(***************************************************************************)
(* C25.  A signup that fails at its second insert.                         *)
(***************************************************************************)
\* C25: a POST /signup that ends with the signup form again (its users
\* insert was rejected) leaves no participant row of its own, no users row,
\* and the session as it was.
C25_SignupAllOrNothing ==
    [][ \A c \in Clients :
          (SignupInsertUser(c) /\ last'.status = 200)
          => /\ ~ \E p \in participants' :
                     p.participant_id = req[c].participant_id
             /\ users' = users
             /\ session' = session ]_vars

(***************************************************************************)
(* C26.  The picture reference a session holds after a login or a signup.  *)
(***************************************************************************)
\* the picture reference rows hold for participant id, null when none
PictureOf(rows, id) ==
    LET found == {p \in rows : p.participant_id = id}
    IN IF found = {} THEN NoUrl ELSE (CHOOSE p \in found : TRUE).profilePictureUrl

\* C26: when a POST /login or POST /signup has succeeded (it redirects), the
\* session's profilePictureUrl is the stored picture reference of the
\* participant the session is now linked to, null when there is none.
C26_PictureOfIdentity ==
    [][ \A c \in Clients :
          (/\ last'.client = c /\ last'.route \in {"POST /login", "POST /signup"}
           /\ last'.status = 302)
          => session'[c].profilePictureUrl =
                PictureOf(participants', session'[c].participantId)
      ]_vars

(***************************************************************************)
(* C27.  Who can become a manager: logins with right and wrong passwords,  *)
(* signups, and the users form sent by a manager and by others.            *)
(***************************************************************************)
NextEscalate ==
    \/ LoginFindUser("c1", "boss", "pw1")
    \/ \E u \in {"boss", "ana", "bob", "superuser"}, pw \in Passwords :
          LoginFindUser("c2", u, pw)
    \/ \E u \in SignupNames : SignupInsertParticipant("c2", u, "pw2")
    \/ \E c \in Clients :
          \/ LoginFindPicture(c)
          \/ LoginPictureFail(c)
          \/ SignupInsertUser(c)
          \/ Logout(c)
          \/ \E b \in UserBodies : usersAdd(c, b)
          \/ \E b \in UserBodies : usersEdit(c, 2, b)
          \/ usersDelete(c, 2)

SpecEscalate == Init /\ [][NextEscalate]_vars

\* the ids of the rows with role 'manager'
ManagerRows(rows) == {u.user_id : u \in {v \in rows : v.role = "manager"}}

\* the roles of the rows, by id
RoleOf(rows, id) == {u.role : u \in {v \in rows : v.user_id = id}}

\* C27: a session gets the role 'manager' only in a step of its own POST
\* /login whose username and password are those of a users row with role
\* 'manager'; POST /signup creates its users row and its session with role
\* 'user'; and a step of a session that is not a manager adds no users row
\* with role 'manager' and changes the role of none.
C27_NoEscalation ==
    [][ \A c \in Clients :
          /\ (session'[c].role = "manager" /\ session[c].role # "manager")
               => \E u \in users :
                     /\ u.role = "manager"
                     /\ LoginFindUser(c, u.username, u.password)
          /\ (SignupInsertUser(c) /\ last'.status = 302)
               => /\ session'[c].role = "user"
                  /\ \A u \in users' \ users : u.role = "user"
          /\ (last'.client = c /\ ~(session[c].isLoggedIn /\ session[c].role = "manager"))
               => /\ ManagerRows(users') \subseteq ManagerRows(users)
                  /\ \A u \in users : RoleOf(users', u.user_id) \subseteq {u.role}
      ]_vars

\* a visitor has signed up as superuser and has sent the users form with
\* role manager: it was denied, the session is a user's, and the only
\* manager row is the one there was
C27_Witness ==
    /\ last = Denied("c2", "POST /users/add")
    /\ session["c2"].isLoggedIn /\ session["c2"].role = "user"
    /\ session["c2"].username = "superuser"
    /\ ManagerRows(users) = {1}
    /\ Cardinality(users) = 3

(***************************************************************************)
(* C28.  The page and the offset a listing computes from ?page=.           *)
(***************************************************************************)
\* C28: whatever the page parameter (missing, '2', '-1'), the page a
\* listing goes on with is at least 1 and its offset (page - 1) * 100 is at
\* least 0.
C28_PageAtLeastOne ==
    [][ \A c \in Clients :
          (/\ last'.client = c /\ last'.route \in ListRoutes
           /\ req[c] = Idle /\ req'[c] # Idle)
          => /\ req'[c].page >= 1
             /\ (req'[c].page - 1) * limit >= 0 ]_vars

(***************************************************************************)
(* C29.  A manager, a user, and a visitor who signed up as superuser look  *)
(* at surveys: their own, another participant's, and one that is missing.  *)
(***************************************************************************)
ViewIds == {1, 2, 3}

NextView ==
    \/ LoginFindUser("c1", "boss", "pw1")
    \/ LoginFindUser("c2", "ana", "pw2")
    \/ SignupInsertParticipant("c2", "superuser", "pw1")
    \/ \E c \in Clients :
          \/ LoginFindPicture(c)
          \/ SignupInsertUser(c)
          \/ Logout(c)
          \/ submitSurveyCheck(c, 1, <<"5">>)
          \/ submitSurveyInsert(c)
          \/ surveysDelete(c, 1)
          \/ \E id \in ViewIds : surveyView(c, id)

SpecView == Init /\ [][NextView]_vars

\* C29: GET /survey/view/:surveyId of a logged-in session redirects to
\* /events when no survey has the id; it renders the survey when the
\* session's role is 'manager' or the survey's participant_id is the
\* session's participantId; otherwise it answers 403 and renders nothing.
C29_ViewOwnOrManager ==
    [][ \A c \in Clients : \A id \in ViewIds :
          (surveyView(c, id) /\ session[c].isLoggedIn)
          => LET found == {r \in surveys : r.survey_id = id} IN
             IF found = {}
             THEN last' = Redirect(c, "GET /survey/view/:surveyId", "/events")
             ELSE \A r \in found :
                    IF \/ session[c].role = "manager"
                       \/ r.participant_id = session[c].participantId
                    THEN last'.status = 200 /\ last'.rows = {r}
                    ELSE last'.status = 403 /\ last'.rows = {} ]_vars

\* superuser, who sees every row in the listings, has asked for Bob's
\* survey and got 403, while ana's own survey exists
C29_Witness ==
    /\ last.route = "GET /survey/view/:surveyId" /\ last.status = 403
    /\ session[last.client].username = "superuser"
    /\ \E r \in surveys : r.participant_id = 2
    /\ \E r \in surveys : r.participant_id = 1

(***************************************************************************)
(* C30.  A donor sends the public donation form while the manager deletes  *)
(* the donor's participant, at any interleaving of the two requests.       *)
(***************************************************************************)
NextOrphan ==
    \/ LoginFindUser("c1", "boss", "pw1")
    \/ \E c \in Clients :
          \/ \E id \in {1, 3} : participantsDeleteBegin(c, id)
          \/ CascadeSteps(c)
    \/ \E email \in DonorMails : donateLookup("c2", email)
    \/ donateInsertParticipant("c2")
    \/ donateInsertDonation("c2", 9)

SpecOrphan == Init /\ [][NextOrphan]_vars

====
